---------------------------- MODULE Spec2Model ----------------------------
(***************************************************************************)
(* A model of the kamu metadata repository, the transform service and the  *)
(* pull command.                                                            *)
(*                                                                          *)
(*   SpecRepo   add_dataset / delete_dataset on the metadata repository     *)
(*   SpecBatch  add_datasets: the dependency-ordering loop, then the adds   *)
(*   SpecPull   PullCommand::run                                            *)
(*   SpecTransform  TransformService::transform, between ingests            *)
(*   SpecMulti  TransformService::transform_multi and its worker threads    *)
(*   SpecWaves  pull_multi: the waves of a pull, transform_multi in each    *)
(*   SpecSources  transform of chains that declare their source again       *)
(*   SpecBatchFair  SpecBatch, the thread of add_datasets never stopped     *)
(*   SpecIds    the constructors and conversions of DatasetID, DatasetIDBuf *)
(*   SpecSummary  get_summary in a repository whose summary writes may fail *)
(*   SpecIntegrity  add_dataset, add_datasets and delete_dataset together   *)
(*   SpecWait   the polling loops of DockerClient                           *)
(*   SpecWaitFair  SpecWait, the waiting thread never stopped               *)
(***************************************************************************)
EXTENDS Integers, Sequences, FiniteSets, TLC

VARIABLES
    chains,     \* datasets/<id>/ : id -> metadata chain (the directory exists iff id \in DOMAIN chains)
    summaries,  \* datasets/<id>/summary : id -> DatasetSummary
    bulk,       \* <volume>/{data,checkpoints,cache}/<id>/ : id -> the directories present
    now,        \* the system clock (Utc::now())
    ret,        \* the last completed repository call: its argument, result and the state it ran in
    ad,         \* the add_datasets call in progress
    cmd,        \* the PullCommand and how far its run has come
    tm,         \* the TransformService call in progress or completed
    workers,    \* the transform_multi worker threads, in spawn order
    locks       \* the engine factory mutex and the mutex of each engine

repoVars == <<chains, summaries, bulk>>
pullVars == <<cmd>>
xfVars == <<tm, workers, locks>>
vars == <<chains, summaries, bulk, now, ret, ad, cmd, tm, workers, locks>>

(***************************************************************************)
(* Bounds                                                                   *)
(***************************************************************************)
MaxInputs == 2      \* longest input list of a derivative snapshot
MaxBatch == 3       \* largest batch handed to add_datasets
MaxTime == 1        \* the clock stops advancing here
MaxBulk == 1        \* bulk directories written in the whole volume

Ids == {"a", "b", "d"}
Engines == {"spark", "flink"}
BulkDirs == {"cache", "checkpoints", "data"}

(***************************************************************************)
(* Option<T>: None is <<>>, Some(x) is <<x>>                                *)
(***************************************************************************)
None == <<>>
Some(x) == <<x>>
IsSome(o) == Len(o) > 0
Unwrap(o) == o[1]

Range(s) == {s[i] : i \in 1..Len(s)}

\* sequences over S without repetition, of length lo..hi
DistinctSeqs(S, lo, hi) ==
    {s \in UNION {[1..n -> S] : n \in lo..hi} :
        \A i, j \in 1..Len(s) : i # j => s[i] # s[j]}

(***************************************************************************)
(* Snapshots and sources                                                    *)
(***************************************************************************)
RootSource == [kind |-> "root", inputs |-> <<>>, engine |-> ""]
DerivativeSource(inputs, engine) ==
    [kind |-> "derivative", inputs |-> inputs, engine |-> engine]

RootSnapshot(id) == [id |-> id, source |-> RootSource, vocab |-> None]
DerivativeSnapshot(id, inputs) ==
    [id |-> id, source |-> DerivativeSource(inputs, "spark"), vocab |-> None]

Snapshots ==
    {RootSnapshot(id) : id \in Ids}
    \cup {DerivativeSnapshot(id, ins) :
            id \in Ids, ins \in DistinctSeqs(Ids, 1, MaxInputs)}

(***************************************************************************)
(* Metadata blocks and chains                                               *)
(***************************************************************************)
EmptyHash == <<>>

\* the content hash: a function of every field but block_hash, injective
BlockHash(b) ==
    <<b.prev_block_hash, b.system_time, b.source, b.output_slice,
      b.output_watermark, b.input_slices>>

\* MetadataChain::create: the chain holds the genesis block, HEAD names it
ChainCreate(first_block) ==
    LET b == [first_block EXCEPT !.block_hash = BlockHash(first_block)]
    IN  [head |-> b.block_hash, blocks |-> {b}]

(***************************************************************************)
(* DomainError                                                              *)
(***************************************************************************)
Ok == [tag |-> "Ok"]
AlreadyExists(id) == [tag |-> "AlreadyExists", id |-> id]
DoesNotExist(id) == [tag |-> "DoesNotExist", id |-> id]
OkChain(chain) == [tag |-> "Ok", chain |-> chain]
MissingReference(from_id, to_id) ==
    [tag |-> "MissingReference", from_id |-> from_id, to_id |-> to_id]
DanglingReference(from_ids, to_id) ==
    [tag |-> "DanglingReference", from_ids |-> from_ids, to_id |-> to_id]

(***************************************************************************)
(* MetadataRepositoryImpl                                                   *)
(***************************************************************************)
dataset_exists(ch, id) == id \in DOMAIN ch

\* a function extended or overwritten at one point
Put(f, k, v) == [x \in DOMAIN f \cup {k} |-> IF x = k THEN v ELSE f[x]]
Drop(f, k) == [x \in DOMAIN f \ {k} |-> f[x]]

\* the for loop of add_dataset reporting the last unresolved input, not the first
FirstMissingMut(ch, inputs) ==
    LET missing == {i \in 1..Len(inputs) : ~dataset_exists(ch, inputs[i])}
    IN  IF missing = {} THEN None
        ELSE Some(inputs[CHOOSE i \in missing : \A j \in missing : i >= j])

\* the first input that does not resolve, as the for loop of add_dataset finds it
FirstMissing(ch, inputs) ==
    LET missing == {i \in 1..Len(inputs) : ~dataset_exists(ch, inputs[i])}
    IN  IF missing = {} THEN None
        ELSE Some(inputs[CHOOSE i \in missing : \A j \in missing : i <= j])

\* the result of add_dataset(snapshot) in a repository whose chains are ch
AddDatasetResult(ch, snapshot) ==
    IF dataset_exists(ch, snapshot.id) THEN AlreadyExists(snapshot.id)
    ELSE IF snapshot.source.kind = "derivative"
              /\ IsSome(FirstMissing(ch, snapshot.source.inputs))
    THEN MissingReference(snapshot.id, Unwrap(FirstMissing(ch, snapshot.source.inputs)))
    ELSE Ok

GenesisBlock(snapshot, t) ==
    [block_hash |-> EmptyHash,
     prev_block_hash |-> EmptyHash,
     system_time |-> t,
     source |-> Some(snapshot.source),
     output_slice |-> None,
     output_watermark |-> None,
     input_slices |-> None]

DefaultVocab == "default"

NewSummary(snapshot) ==
    [id |-> snapshot.id,
     kind |-> snapshot.source.kind,
     dependencies |-> snapshot.source.inputs,
     last_pulled |-> None,
     num_records |-> 0,
     data_size |-> 0,
     vocab |-> IF IsSome(snapshot.vocab) THEN Unwrap(snapshot.vocab) ELSE DefaultVocab]

\* the repository after add_dataset(snapshot) at time t
AddDatasetChains(ch, snapshot, t) ==
    IF AddDatasetResult(ch, snapshot) = Ok
    THEN Put(ch, snapshot.id, ChainCreate(GenesisBlock(snapshot, t)))
    ELSE ch

AddDatasetSummaries(ch, su, snapshot) ==
    IF AddDatasetResult(ch, snapshot) = Ok
    THEN Put(su, snapshot.id, NewSummary(snapshot))
    ELSE su

\* the dependents filter looking at the first dependency only
DependentsMut(ch, su, id) ==
    {x \in DOMAIN ch \ {id} :
        Len(su[x].dependencies) > 0 /\ su[x].dependencies[1] = id}

\* the datasets other than id whose summary lists id
Dependents(ch, su, id) ==
    {x \in DOMAIN ch \ {id} : id \in Range(su[x].dependencies)}

DeleteDatasetResult(ch, su, id) ==
    IF ~dataset_exists(ch, id) THEN DoesNotExist(id)
    ELSE IF Dependents(ch, su, id) # {}
    THEN DanglingReference(Dependents(ch, su, id), id)
    ELSE Ok

Before == [chains |-> chains, summaries |-> summaries, bulk |-> bulk]
NoRepo == [chains |-> <<>>, summaries |-> <<>>, bulk |-> <<>>]

\* no pull command, no transform under way
CmdNone == [pc |-> "none", ids |-> <<>>, recursive |-> FALSE, all |-> FALSE,
            pull_multi |-> <<>>, results |-> <<>>, res |-> [tag |-> "Ok"],
            updated |-> 0, up_to_date |-> 0, errors |-> 0]
TmIdle == [pc |-> "idle", op |-> "none", ids |-> <<>>, requests |-> <<>>,
           spawned |-> 0, joined |-> 0, repo |-> <<>>, panic |-> None,
           results |-> <<>>, calls |-> <<>>, events |-> <<>>, pre |-> NoRepo]
LocksFree == [factory |-> 0, engine |-> [e \in Engines |-> 0]]

NoCall == [op |-> "none", arg |-> None, res |-> Ok, pre |-> NoRepo]

AdIdle == [pc |-> "idle", batch |-> <<>>, snapshots |-> <<>>, pending |-> {},
           added |-> {}, ordered |-> <<>>, results |-> <<>>]

\* MetadataRepository::add_dataset
AddDataset(snapshot) ==
    /\ ad.pc = "idle"
    /\ chains' = AddDatasetChains(chains, snapshot, now)
    /\ summaries' = AddDatasetSummaries(chains, summaries, snapshot)
    /\ ret' = [op |-> "add_dataset", arg |-> snapshot,
               res |-> AddDatasetResult(chains, snapshot), pre |-> Before]
    /\ UNCHANGED <<bulk, now, ad, pullVars, xfVars>>

\* get_metadata_chain_impl: the chain handle, or DoesNotExist
get_metadata_chain_impl(ch, dataset_id) ==
    IF ~dataset_exists(ch, dataset_id) THEN DoesNotExist(dataset_id)
    ELSE OkChain(ch[dataset_id])

\* get_all_datasets: the entries of the datasets directory
get_all_datasets(ch) == DOMAIN ch

\* delete_dataset that leaves the data directory behind
DeleteDatasetMut(id) ==
    /\ ad.pc = "idle"
    /\ LET res == DeleteDatasetResult(chains, summaries, id) IN
        /\ ret' = [op |-> "delete_dataset", arg |-> id, res |-> res, pre |-> Before]
        /\ IF res = Ok
           THEN /\ chains' = Drop(chains, id)
                /\ summaries' = Drop(summaries, id)
                /\ bulk' = [bulk EXCEPT ![id] = @ \cap {"data"}]
           ELSE UNCHANGED repoVars
    /\ UNCHANGED <<now, ad, pullVars, xfVars>>

\* MetadataRepository::delete_dataset
DeleteDataset(id) ==
    /\ ad.pc = "idle"
    /\ LET res == DeleteDatasetResult(chains, summaries, id) IN
        /\ ret' = [op |-> "delete_dataset", arg |-> id, res |-> res, pre |-> Before]
        /\ IF res = Ok
           THEN /\ chains' = Drop(chains, id)
                /\ summaries' = Drop(summaries, id)
                /\ bulk' = [bulk EXCEPT ![id] = {}]
           ELSE UNCHANGED repoVars
    /\ UNCHANGED <<now, ad, pullVars, xfVars>>

BulkCount(bk) == Cardinality({p \in Ids \X BulkDirs : p[2] \in bk[p[1]]})

\* the engine or the ingest writes a bulk directory of an existing dataset
CreateBulkDir(id, dir) ==
    /\ ad.pc = "idle"
    /\ dataset_exists(chains, id)
    /\ dir \notin bulk[id]
    /\ BulkCount(bulk) < MaxBulk
    /\ bulk' = [bulk EXCEPT ![id] = @ \cup {dir}]
    /\ ret' = NoCall
    /\ UNCHANGED <<chains, summaries, now, ad, pullVars, xfVars>>

InitRepo ==
    /\ chains = <<>>
    /\ summaries = <<>>
    /\ bulk = [id \in Ids |-> {}]
    /\ now = 0
    /\ ret = NoCall
    /\ ad = AdIdle
    /\ cmd = CmdNone
    /\ tm = TmIdle
    /\ workers = <<>>
    /\ locks = LocksFree

NextRepo ==
    \/ \E s \in Snapshots : AddDataset(s)
    \/ \E id \in Ids : DeleteDataset(id)
    \/ \E id \in Ids, dir \in BulkDirs : CreateBulkDir(id, dir)

SpecRepo == InitRepo /\ [][NextRepo]_vars


(***************************************************************************)
(* add_datasets: sort_snapshots_in_dependency_order, then add_dataset on    *)
(* each snapshot in the order found                                         *)
(***************************************************************************)
SnapshotIds(batch) == {batch[i].id : i \in 1..Len(batch)}

\* what a snapshot declares besides its id: a root, or the inputs of a derivative
Shapes == {<<>>} \cup DistinctSeqs(Ids, 1, MaxInputs)
SnapshotOf(id, shape) ==
    IF shape = <<>> THEN RootSnapshot(id) ELSE DerivativeSnapshot(id, shape)

\* a batch of snapshots with pairwise distinct ids: its ids, and what each declares
BatchIds == DistinctSeqs(Ids, 1, MaxBatch)
BatchOf(ids, sh) == [i \in 1..Len(ids) |-> SnapshotOf(ids[i], sh[i])]

\* has_deps with all() in the place of any()
HasDepsMut(head, pending) ==
    /\ head.source.kind = "derivative"
    /\ \A i \in 1..Len(head.source.inputs) : head.source.inputs[i] \in pending

\* has_deps: some input of a derivative head is still pending
HasDeps(head, pending) ==
    /\ head.source.kind = "derivative"
    /\ \E i \in 1..Len(head.source.inputs) : head.source.inputs[i] \in pending

\* add_datasets is called: the batch is collected into the list to sort
AddDatasetsCall ==
    /\ ad.pc = "idle"
    /\ \E ids \in BatchIds : \E sh \in [1..Len(ids) -> Shapes] :
        LET batch == BatchOf(ids, sh) IN
        /\ ad' = [pc |-> "sort", batch |-> batch, snapshots |-> batch,
                  pending |-> SnapshotIds(batch), added |-> {},
                  ordered |-> <<>>, results |-> <<>>]
        /\ ret' = [op |-> "add_datasets", arg |-> batch, res |-> Ok, pre |-> Before]
    /\ UNCHANGED <<chains, summaries, bulk, now, pullVars, xfVars>>

\* one iteration of the while loop of sort_snapshots_in_dependency_order
SortStep ==
    /\ ad.pc = "sort"
    /\ ad.snapshots # <<>>
    /\ LET head == Head(ad.snapshots) IN
        IF ~HasDeps(head, ad.pending)
        THEN ad' = [ad EXCEPT !.snapshots = Tail(@),
                              !.pending = @ \ {head.id},
                              !.added = @ \cup {head.id},
                              !.ordered = Append(@, head)]
        ELSE ad' = [ad EXCEPT !.snapshots = Append(Tail(@), head)]
    /\ UNCHANGED <<chains, summaries, bulk, now, ret, pullVars, xfVars>>

\* the loop ends when the list is empty
SortReturn ==
    /\ ad.pc = "sort"
    /\ ad.snapshots = <<>>
    /\ ad' = [ad EXCEPT !.pc = "add"]
    /\ UNCHANGED <<chains, summaries, bulk, now, ret, pullVars, xfVars>>

\* the map closure of add_datasets: add_dataset on the next ordered snapshot
AddStep ==
    /\ ad.pc = "add"
    /\ Len(ad.results) < Len(ad.ordered)
    /\ LET s == ad.ordered[Len(ad.results) + 1] IN
        /\ chains' = AddDatasetChains(chains, s, now)
        /\ summaries' = AddDatasetSummaries(chains, summaries, s)
        /\ ad' = [ad EXCEPT !.results = Append(@, <<s.id, AddDatasetResult(chains, s)>>)]
    /\ UNCHANGED <<bulk, now, ret, pullVars, xfVars>>

\* add_datasets returns the collected results
AddDatasetsReturn ==
    /\ ad.pc = "add"
    /\ Len(ad.results) = Len(ad.ordered)
    /\ ad' = [ad EXCEPT !.pc = "done"]
    /\ UNCHANGED <<chains, summaries, bulk, now, ret, pullVars, xfVars>>

\* a repository that holds some root datasets, each added by add_dataset
RootsOnly(S) ==
    [id \in S |-> ChainCreate(GenesisBlock(RootSnapshot(id), 0))]

InitBatch ==
    /\ \E S \in SUBSET Ids :
          /\ chains = RootsOnly(S)
          /\ summaries = [id \in S |-> NewSummary(RootSnapshot(id))]
    /\ bulk = [id \in Ids |-> {}]
    /\ now = 0
    /\ ret = NoCall
    /\ ad = AdIdle
    /\ cmd = CmdNone
    /\ tm = TmIdle
    /\ workers = <<>>
    /\ locks = LocksFree

NextBatch ==
    \/ AddDatasetsCall
    \/ SortStep
    \/ SortReturn
    \/ AddStep
    \/ AddDatasetsReturn

SpecBatch == InitBatch /\ [][NextBatch]_vars

\* add_datasets runs on one thread that is never stopped: its loops go on
\* while they have an iteration to make
SpecBatchFair ==
    /\ SpecBatch
    /\ WF_vars(SortStep)
    /\ WF_vars(SortReturn)
    /\ WF_vars(AddStep)
    /\ WF_vars(AddDatasetsReturn)


(***************************************************************************)
(* PullCommand                                                              *)
(***************************************************************************)
MaxArgs == 2        \* most ids given on the command line
MaxResults == 2     \* most results pull_multi returns

\* what may stand on the command line: dataset ids, and a string that is none
CmdIds == Ids \cup {"1bad"}
CmdIdLists == UNION {[1..n -> CmdIds] : n \in 0..MaxArgs}

\* s.parse::<DatasetIDBuf>() succeeds
ParsesAsDatasetID(s) == s \in Ids

UsageError(msg) == [tag |-> "UsageError", msg |-> msg]

\* the third arm of the match without its test of --all
MatchArgsMutIds(ids, recursive, all) ==
    IF ids = <<>> /\ ~recursive /\ ~all THEN "usage: specify"
    ELSE IF ids = <<>> /\ ~recursive /\ all THEN "all"
    ELSE IF ids # <<>> THEN "ids"
    ELSE "usage: invalid"

\* the second arm of the match with a wildcard for --recursive
MatchArgsMutAll(ids, recursive, all) ==
    IF ids = <<>> /\ ~recursive /\ ~all THEN "usage: specify"
    ELSE IF ids = <<>> /\ all THEN "all"
    ELSE IF ~all THEN "ids"
    ELSE "usage: invalid"

\* the arm of match (&self.ids[..], self.recursive, self.all) that is taken
MatchArgs(ids, recursive, all) ==
    IF ids = <<>> /\ ~recursive /\ ~all THEN "usage: specify"
    ELSE IF ids = <<>> /\ ~recursive /\ all THEN "all"
    ELSE IF ~all THEN "ids"
    ELSE "usage: invalid"

PullResults == {"UpToDate", "Updated", "Err"}

\* PullCommand::run up to its call of pull_multi
Run ==
    /\ cmd.pc = "new"
    /\ LET arm == MatchArgs(cmd.ids, cmd.recursive, cmd.all) IN
        CASE arm = "usage: specify" ->
                cmd' = [cmd EXCEPT !.pc = "done",
                           !.res = UsageError("Specify a dataset or pass --all")]
          [] arm = "usage: invalid" ->
                cmd' = [cmd EXCEPT !.pc = "done",
                           !.res = UsageError("Invalid combination of arguments")]
          [] arm = "all" ->
                cmd' = [cmd EXCEPT !.pc = "pulling",
                           !.pull_multi = Append(@,
                               [ids |-> <<>>, recursive |-> cmd.recursive, all |-> cmd.all])]
          [] OTHER ->
                IF \A i \in 1..Len(cmd.ids) : ParsesAsDatasetID(cmd.ids[i])
                THEN cmd' = [cmd EXCEPT !.pc = "pulling",
                                !.pull_multi = Append(@,
                                    [ids |-> cmd.ids, recursive |-> cmd.recursive,
                                     all |-> cmd.all])]
                ELSE cmd' = [cmd EXCEPT !.pc = "panicked"]
    /\ UNCHANGED <<repoVars, now, ret, ad, xfVars>>

\* pull_multi returns; run counts the results, reports them and returns Ok
Report ==
    /\ cmd.pc = "pulling"
    /\ \E n \in 0..MaxResults : \E results \in [1..n -> Ids \X PullResults] :
        cmd' = [cmd EXCEPT
            !.pc = "done",
            !.results = results,
            !.updated = Cardinality({i \in 1..n : results[i][2] = "Updated"}),
            !.up_to_date = Cardinality({i \in 1..n : results[i][2] = "UpToDate"}),
            !.errors = Cardinality({i \in 1..n : results[i][2] = "Err"}),
            !.res = Ok]
    /\ UNCHANGED <<repoVars, now, ret, ad, xfVars>>

InitPull ==
    /\ chains = <<>>
    /\ summaries = <<>>
    /\ bulk = [id \in Ids |-> {}]
    /\ now = 0
    /\ ret = NoCall
    /\ ad = AdIdle
    /\ \E ids \in CmdIdLists, recursive \in BOOLEAN, all \in BOOLEAN :
          cmd = [CmdNone EXCEPT !.pc = "new", !.ids = ids,
                                !.recursive = recursive, !.all = all]
    /\ tm = TmIdle
    /\ workers = <<>>
    /\ locks = LocksFree

NextPull ==
    \/ Run
    \/ Report

SpecPull == InitPull /\ [][NextPull]_vars


(***************************************************************************)
(* TimeInterval: empty, or from lo (None: -inf; open or closed) to hi       *)
(* (None: +inf; closed)                                                     *)
(***************************************************************************)
EmptyInterval == [empty |-> TRUE, lo |-> None, lo_open |-> FALSE, hi |-> None]

\* the canonical form of the interval from lo to hi
Interval(lo, lo_open, hi) ==
    IF IsSome(lo) /\ IsSome(hi)
          /\ (Unwrap(lo) > Unwrap(hi) \/ (Unwrap(lo) = Unwrap(hi) /\ lo_open))
    THEN EmptyInterval
    ELSE [empty |-> FALSE, lo |-> lo, lo_open |-> IsSome(lo) /\ lo_open, hi |-> hi]

UnboundedInterval == Interval(None, FALSE, None)
unbounded_closed_right(t) == Interval(None, FALSE, Some(t))

is_empty(iv) == iv.empty

contains_point(iv, t) ==
    /\ ~iv.empty
    /\ IsSome(iv.lo) => IF iv.lo_open THEN t > Unwrap(iv.lo) ELSE t >= Unwrap(iv.lo)
    /\ IsSome(iv.hi) => t <= Unwrap(iv.hi)

\* everything strictly to the right of the right edge; of the empty interval, everything
right_complement(iv) ==
    IF iv.empty THEN UnboundedInterval
    ELSE IF ~IsSome(iv.hi) THEN EmptyInterval
    ELSE Interval(iv.hi, TRUE, None)

intersect(a, b) ==
    IF a.empty \/ b.empty THEN EmptyInterval
    ELSE LET lo == IF ~IsSome(a.lo) THEN <<b.lo, b.lo_open>>
                   ELSE IF ~IsSome(b.lo) THEN <<a.lo, a.lo_open>>
                   ELSE IF Unwrap(a.lo) > Unwrap(b.lo) THEN <<a.lo, a.lo_open>>
                   ELSE IF Unwrap(b.lo) > Unwrap(a.lo) THEN <<b.lo, b.lo_open>>
                   ELSE <<a.lo, a.lo_open \/ b.lo_open>>
             hi == IF ~IsSome(a.hi) THEN b.hi
                   ELSE IF ~IsSome(b.hi) THEN a.hi
                   ELSE IF Unwrap(a.hi) <= Unwrap(b.hi) THEN a.hi ELSE b.hi
         IN  Interval(lo[1], lo[2], hi)

(***************************************************************************)
(* MetadataChain                                                            *)
(***************************************************************************)
get_block(chain, hash) == CHOOSE b \in chain.blocks : b.block_hash = hash

RECURSIVE BlocksFrom(_, _)
BlocksFrom(chain, hash) ==
    IF hash = EmptyHash THEN <<>>
    ELSE <<get_block(chain, hash)>>
            \o BlocksFrom(chain, get_block(chain, hash).prev_block_hash)

\* iter_blocks: the blocks from HEAD back to the genesis block
iter_blocks(chain) == BlocksFrom(chain, chain.head)

\* append: the block is hashed and written, HEAD moves to it
ChainAppend(chain, block) ==
    LET b == [block EXCEPT !.block_hash = BlockHash(block)]
    IN  [head |-> b.block_hash, blocks |-> chain.blocks \cup {b}]

RECURSIVE TakeWhileUnprocessed(_, _)
TakeWhileUnprocessed(blocks, iv) ==
    IF blocks = <<>> \/ ~contains_point(iv, Head(blocks).system_time) THEN <<>>
    ELSE <<Head(blocks)>> \o TakeWhileUnprocessed(Tail(blocks), iv)

Reverse(s) == [i \in 1..Len(s) |-> s[Len(s) + 1 - i]]

(***************************************************************************)
(* TransformServiceImpl                                                     *)
(***************************************************************************)
MaxIngested == 2    \* blocks the ingest service commits, over all datasets
MaxTransformed == 2 \* blocks the transform service commits, over all datasets
MaxRecords == 1     \* most records in one output slice

HasSource(b) == IsSome(b.source)
HasInputSlices(b) == IsSome(b.input_slices)
HasWatermark(b) == IsSome(b.output_watermark)

RECURSIVE FirstNonEmpty(_, _)
FirstNonEmpty(blocks, index) ==
    IF blocks = <<>> THEN EmptyInterval
    ELSE IF ~is_empty(Unwrap(Head(blocks).input_slices)[index].interval)
    THEN Unwrap(Head(blocks).input_slices)[index].interval
    ELSE FirstNonEmpty(Tail(blocks), index)

\* iv_processed: the first non-empty interval of input index, walking from HEAD
IvProcessed(index, output_chain) ==
    FirstNonEmpty(SelectSeq(iter_blocks(output_chain), HasInputSlices), index)

WatermarkOf(b) ==
    [system_time |-> b.system_time, event_time |-> Unwrap(b.output_watermark)]

\* the emptiness test with || in the place of &&
SliceIsEmptyMut(blocks_unprocessed, explicit_watermarks) ==
    \/ \A i \in 1..Len(blocks_unprocessed) : ~IsSome(blocks_unprocessed[i].output_slice)
    \/ explicit_watermarks = <<>>

\* empty: no unprocessed block carries an output slice, and there is no watermark
SliceIsEmpty(blocks_unprocessed, explicit_watermarks) ==
    /\ \A i \in 1..Len(blocks_unprocessed) : ~IsSome(blocks_unprocessed[i].output_slice)
    /\ explicit_watermarks = <<>>

\* the available range taken up to the oldest collected block
IvAvailableMut(blocks_unprocessed) ==
    IF blocks_unprocessed = <<>> THEN EmptyInterval
    ELSE unbounded_closed_right(blocks_unprocessed[Len(blocks_unprocessed)].system_time)

\* iv_available: () or (-inf, upper], upper the time of the newest collected block
IvAvailable(blocks_unprocessed) ==
    IF blocks_unprocessed = <<>> THEN EmptyInterval
    ELSE unbounded_closed_right(blocks_unprocessed[1].system_time)

\* the blocks of the input chain not yet processed into the output chain
BlocksUnprocessed(index, input_chain, output_chain) ==
    TakeWhileUnprocessed(iter_blocks(input_chain),
                         right_complement(IvProcessed(index, output_chain)))

\* get_input_slice asking for all that is available, processed before or not
get_input_sliceMut(index, input_chain, output_chain) ==
    LET blocks_unprocessed == BlocksUnprocessed(index, input_chain, output_chain)
        with_watermark == SelectSeq(Reverse(blocks_unprocessed), HasWatermark)
        explicit_watermarks == [i \in 1..Len(with_watermark) |-> WatermarkOf(with_watermark[i])]
    IN  [slice |-> [interval |-> IvAvailable(blocks_unprocessed),
                    explicit_watermarks |-> explicit_watermarks],
         empty |-> SliceIsEmpty(blocks_unprocessed, explicit_watermarks)]

\* get_input_slice without rev(): the watermarks listed newest first
get_input_sliceMutOrder(index, input_chain, output_chain) ==
    LET iv_unprocessed == right_complement(IvProcessed(index, output_chain))
        blocks_unprocessed == BlocksUnprocessed(index, input_chain, output_chain)
        with_watermark == SelectSeq(blocks_unprocessed, HasWatermark)
        explicit_watermarks == [i \in 1..Len(with_watermark) |-> WatermarkOf(with_watermark[i])]
    IN  [slice |-> [interval |-> intersect(IvAvailable(blocks_unprocessed), iv_unprocessed),
                    explicit_watermarks |-> explicit_watermarks],
         empty |-> SliceIsEmpty(blocks_unprocessed, explicit_watermarks)]

\* get_input_slice: (InputDataSlice, empty)
get_input_slice(index, input_chain, output_chain) ==
    LET iv_processed == IvProcessed(index, output_chain)
        iv_unprocessed == right_complement(iv_processed)
        blocks_unprocessed == BlocksUnprocessed(index, input_chain, output_chain)
        iv_available == IvAvailable(blocks_unprocessed)
        iv_to_process == intersect(iv_available, iv_unprocessed)
        with_watermark == SelectSeq(Reverse(blocks_unprocessed), HasWatermark)
        explicit_watermarks == [i \in 1..Len(with_watermark) |-> WatermarkOf(with_watermark[i])]
    IN  [slice |-> [interval |-> iv_to_process,
                    explicit_watermarks |-> explicit_watermarks],
         empty |-> SliceIsEmpty(blocks_unprocessed, explicit_watermarks)]

\* what get_next_operation comes to
Panics == [tag |-> "Panic", err |-> Ok, req |-> None]
\* unimplemented!("Transform evolution is not yet supported")
NotImplemented == [tag |-> "Panic", err |-> [tag |-> "not implemented"], req |-> None]

\* the test on the number of distinct sources
TooManySourcesMut(sources) ==
    Cardinality({sources[i].source : i \in 1..Len(sources)}) > 1

\* sources.len() > 1, sources the blocks that carry a source
TooManySources(sources) == Len(sources) > 1
Fails(err) == [tag |-> "Err", err |-> err, req |-> None]
Returns(req) == [tag |-> "Ok", err |-> Ok, req |-> req]

LastIndexOf(s, x) == CHOOSE i \in 1..Len(s) : s[i] = x /\ \A j \in (i + 1)..Len(s) : s[j] # x

\* ExecuteQueryRequest for dataset_id, from the slices found for its inputs
Request(su, dataset_id, source, slices) ==
    [dataset_id |-> dataset_id,
     source |-> source,
     dataset_vocabs |-> [x \in Range(source.inputs) \cup {dataset_id} |-> su[x].vocab],
     input_slices |-> [x \in Range(source.inputs) |->
                          slices[LastIndexOf(source.inputs, x)].slice],
     data_dirs |-> Range(source.inputs) \cup {dataset_id},
     checkpoints_dir |-> dataset_id]

\* the decision with the request built when no slice has data
NextRequestMut(su, dataset_id, source, slices) ==
    IF \A j \in 1..Len(slices) : slices[j].empty
    THEN Some(Request(su, dataset_id, source, slices))
    ELSE None

\* non_empty > 0: the request; otherwise nothing to do
NextRequest(su, dataset_id, source, slices) ==
    IF \E j \in 1..Len(slices) : ~slices[j].empty
    THEN Some(Request(su, dataset_id, source, slices))
    ELSE None

get_next_operation(ch, su, dataset_id) ==
    IF ~dataset_exists(ch, dataset_id) THEN Fails(DoesNotExist(dataset_id))
    ELSE LET sources == SelectSeq(iter_blocks(ch[dataset_id]), HasSource) IN
         IF TooManySources(sources) THEN NotImplemented
         ELSE IF sources = <<>> THEN Panics
         ELSE LET source == Unwrap(sources[Len(sources)].source) IN
              IF source.kind # "derivative" THEN Panics
              ELSE IF \E x \in Range(source.inputs) : x \notin DOMAIN ch \/ x \notin DOMAIN su
              THEN Panics
              ELSE IF dataset_id \notin DOMAIN su THEN Panics
              ELSE Returns(NextRequest(su, dataset_id, source,
                      [j \in 1..Len(source.inputs) |->
                          get_input_slice(j, ch[source.inputs[j]], ch[dataset_id])]))

\* TransformResult and TransformError
UpToDate == [tag |-> "UpToDate"]
Updated(block_hash) == [tag |-> "Updated", block_hash |-> block_hash]
TransformErr(kind) == [tag |-> "Err", kind |-> kind]

\* EngineFactory::get_engine finds the engines that are installed
EngineFound(name) == name \in Engines

Records == 1..MaxRecords

\* the blocks an engine may answer a request with at time t: it records the
\* interval it was asked to process for every input, in the order of the inputs
EngineResponses(request, t) ==
    {[block_hash |-> EmptyHash,
      prev_block_hash |-> EmptyHash,
      system_time |-> t,
      source |-> None,
      output_slice |-> os,
      output_watermark |-> wm,
      input_slices |-> Some([j \in 1..Len(request.source.inputs) |->
          [interval |-> request.input_slices[request.source.inputs[j]].interval]])] :
        os \in {None} \cup {Some([num_records |-> n]) : n \in Records},
        wm \in {None, Some(t)}}

\* the size of a bulk directory; a missing one counts 0
DirSize(bk, id, dir) == IF dir \in bk[id] THEN 1 ELSE 0

\* update_summary adding the records without regard for a missing output slice
UpdatedSummaryMut(summary, block, bk) ==
    [summary EXCEPT
        !.num_records = IF IsSome(block.output_slice)
                        THEN Unwrap(block.output_slice).num_records
                        ELSE 0,
        !.last_pulled = Some(block.system_time),
        !.data_size = DirSize(bk, summary.id, "data") + DirSize(bk, summary.id, "checkpoints")]

\* update_summary for Updated { block_hash }: the summary it stores
UpdatedSummary(summary, block, bk) ==
    [summary EXCEPT
        !.num_records = IF IsSome(block.output_slice)
                        THEN @ + Unwrap(block.output_slice).num_records
                        ELSE 0,
        !.last_pulled = Some(block.system_time),
        !.data_size = DirSize(bk, summary.id, "data") + DirSize(bk, summary.id, "checkpoints")]

\* the directories of a dataset after an engine has written the data of block
Written(dirs, block) ==
    dirs \cup {"checkpoints"} \cup (IF IsSome(block.output_slice) THEN {"data"} ELSE {})

\* the blocks of the repository an ingest (transforms = FALSE) or a transform
\* (transforms = TRUE) has committed
Committed(ch, transforms) ==
    LET n[S \in SUBSET DOMAIN ch] ==
            IF S = {} THEN 0
            ELSE LET x == CHOOSE x \in S : TRUE
                 IN  Cardinality({b \in ch[x].blocks :
                        /\ ~IsSome(b.source)
                        /\ IsSome(b.input_slices) = transforms}) + n[S \ {x}]
    IN  n[DOMAIN ch]

\* the block of the engine taken as it came, its prev_block_hash not set
StitchMut(block, prev_hash) == block

\* MetadataBlock { prev_block_hash: prev_hash, ..result.block }
Stitch(block, prev_hash) == [block EXCEPT !.prev_block_hash = prev_hash]

\* what listener k, made for dataset id, is told
Event(k, id, e) == [listener |-> k, id |-> id, event |-> e]

\* a call to the metadata repository, made while live worker threads run
RepoCall(call, id, live) == [call |-> call, id |-> id, live |-> live]

\* the repository calls of get_next_operation(dataset_id)
NextOperationCalls(ch, su, dataset_id) ==
    IF get_next_operation(ch, su, dataset_id).tag # "Ok"
    THEN <<RepoCall("get_metadata_chain", dataset_id, 0)>>
    ELSE LET inputs == Unwrap(SelectSeq(iter_blocks(ch[dataset_id]), HasSource)[1].source).inputs
         IN  <<RepoCall("get_metadata_chain", dataset_id, 0)>>
             \o [j \in 1..Len(inputs) |-> RepoCall("get_metadata_chain", inputs[j], 0)]
             \o [j \in 1..Len(inputs) |-> RepoCall("get_summary", inputs[j], 0)]
             \o <<RepoCall("get_summary", dataset_id, 0)>>

\* the repository calls of update_summary(dataset_id, result)
UpdateSummaryCalls(dataset_id, result) ==
    IF result.tag = "Updated"
    THEN <<RepoCall("get_summary", dataset_id, 0),
           RepoCall("get_metadata_chain", dataset_id, 0),
           RepoCall("update_summary", dataset_id, 0)>>
    ELSE <<>>

TransformDone(id, req, res, calls, events) ==
    [pc |-> "done", op |-> "transform", ids |-> <<id>>, requests |-> <<req>>,
     spawned |-> 0, joined |-> 0, panic |-> None,
     repo |-> NextOperationCalls(chains, summaries, id)
                \o (IF IsSome(req) THEN <<RepoCall("get_metadata_chain", id, 0)>> ELSE <<>>)
                \o UpdateSummaryCalls(id, res),
     results |-> <<<<id, res>>>>, calls |-> calls,
     events |-> [i \in 1..Len(events) |-> Event(1, id, events[i])], pre |-> Before]

\* TransformService::transform
Transform(id) ==
    /\ tm.pc \in {"idle", "done"}
    /\ LET op == get_next_operation(chains, summaries, id) IN
        CASE op.tag = "Panic" ->
                /\ tm' = [TransformDone(id, None, UpToDate, <<>>, <<>>)
                            EXCEPT !.pc = "panicked", !.results = <<>>,
                                   !.panic = Some(op.err)]
                /\ UNCHANGED repoVars
          [] op.tag = "Err" ->
                /\ tm' = TransformDone(id, None, TransformErr("internal"), <<>>, <<>>)
                /\ UNCHANGED repoVars
          [] op.tag = "Ok" /\ ~IsSome(op.req) ->
                /\ tm' = TransformDone(id, None, UpToDate, <<>>, <<>>)
                /\ UNCHANGED repoVars
          [] OTHER ->
                LET request == Unwrap(op.req)
                    prev_hash == chains[id].head
                    call == [engine |-> request.source.engine, request |-> request]
                IN  IF ~EngineFound(request.source.engine)
                    THEN /\ tm' = TransformDone(id, op.req, TransformErr("engine not found"),
                                      <<>>, <<"begin", "error">>)
                         /\ UNCHANGED repoVars
                    ELSE \/ /\ tm' = TransformDone(id, op.req, TransformErr("engine"),
                                         <<call>>, <<"begin", "error">>)
                            /\ UNCHANGED repoVars
                         \/ /\ Committed(chains, TRUE) < MaxTransformed
                            /\ \E block \in EngineResponses(request, now) :
                                LET new_block == Stitch(block, prev_hash)
                                    chain == ChainAppend(chains[id], new_block)
                                    dirs == [bulk EXCEPT ![id] = Written(@, new_block)]
                                IN  /\ chains' = [chains EXCEPT ![id] = chain]
                                    /\ bulk' = dirs
                                    /\ summaries' = [summaries EXCEPT ![id] =
                                          UpdatedSummary(@, get_block(chain, chain.head), dirs)]
                                    /\ tm' = TransformDone(id, op.req, Updated(chain.head),
                                                <<call>>, <<"begin", "success">>)
    /\ UNCHANGED <<now, ret, ad, pullVars, workers, locks>>

\* the clock advances
Tick ==
    /\ tm.pc \in {"idle", "done"}
    /\ now < MaxTime
    /\ now' = now + 1
    /\ tm' = TmIdle
    /\ UNCHANGED <<repoVars, ret, ad, pullVars, workers, locks>>

\* the ingest service commits a block to a root dataset
Ingest(id) ==
    /\ tm.pc \in {"idle", "done"}
    /\ dataset_exists(chains, id)
    /\ summaries[id].kind = "root"
    /\ Committed(chains, FALSE) < MaxIngested
    /\ \E os \in {None} \cup {Some([num_records |-> n]) : n \in Records},
          wm \in {None, Some(now)} :
        LET block == [block_hash |-> EmptyHash,
                      prev_block_hash |-> chains[id].head,
                      system_time |-> now,
                      source |-> None,
                      output_slice |-> os,
                      output_watermark |-> wm,
                      input_slices |-> None]
            chain == ChainAppend(chains[id], block)
            dirs == [bulk EXCEPT ![id] = Written(@, block)]
        IN  /\ chains' = [chains EXCEPT ![id] = chain]
            /\ bulk' = dirs
            /\ summaries' = [summaries EXCEPT ![id] =
                  UpdatedSummary(@, get_block(chain, chain.head), dirs)]
    /\ tm' = TmIdle
    /\ UNCHANGED <<now, ret, ad, pullVars, workers, locks>>

DerivativeSnapshotOn(id, inputs, engine) ==
    [id |-> id, source |-> DerivativeSource(inputs, engine), vocab |-> None]

\* the repositories the transforms start from: those add_dataset builds from
\* these snapshots, in this order
Workspaces ==
    {<<RootSnapshot("a"), RootSnapshot("b"),
       DerivativeSnapshotOn("d", <<"a", "b">>, "spark")>>,
     <<RootSnapshot("a"), DerivativeSnapshotOn("b", <<"a">>, "flink"),
       DerivativeSnapshotOn("d", <<"b", "a">>, "spark")>>,
     <<RootSnapshot("a"), RootSnapshot("b"),
       DerivativeSnapshotOn("d", <<"a">>, "datafusion")>>,
     <<RootSnapshot("a"), DerivativeSnapshotOn("d", <<"a">>, "flink")>>}

RECURSIVE ChainsAfterAdding(_, _)
ChainsAfterAdding(snapshots, t) ==
    IF snapshots = <<>> THEN <<>>
    ELSE LET n == Len(snapshots)
         IN  AddDatasetChains(ChainsAfterAdding(SubSeq(snapshots, 1, n - 1), t),
                              snapshots[n], t)

RECURSIVE SummariesAfterAdding(_, _)
SummariesAfterAdding(snapshots, t) ==
    IF snapshots = <<>> THEN <<>>
    ELSE LET n == Len(snapshots)
             front == SubSeq(snapshots, 1, n - 1)
         IN  AddDatasetSummaries(ChainsAfterAdding(front, t),
                                 SummariesAfterAdding(front, t), snapshots[n])

InitTransform ==
    /\ \E w \in Workspaces :
          /\ chains = ChainsAfterAdding(w, 0)
          /\ summaries = SummariesAfterAdding(w, 0)
    /\ bulk = [id \in Ids |-> {}]
    /\ now = 0
    /\ ret = NoCall
    /\ ad = AdIdle
    /\ cmd = CmdNone
    /\ tm = TmIdle
    /\ workers = <<>>
    /\ locks = LocksFree

NextTransform ==
    \/ Tick
    \/ \E id \in Ids : Ingest(id)
    \/ \E id \in Ids : Transform(id)

SpecTransform == InitTransform /\ [][NextTransform]_vars


(***************************************************************************)
(* TransformService::transform_multi: the calling thread and one worker     *)
(* thread for every request                                                 *)
(***************************************************************************)
MaxMulti == 2       \* most dataset ids in one transform_multi call

MultiIds == UNION {[1..n -> Ids] : n \in 1..MaxMulti}

Worker(id, request, k) ==
    [id |-> id, request |-> request, listener |-> k, pc |-> "spawned",
     prev_hash |-> None, block |-> None, res |-> None]

\* the repository calls of the requests of ids, up to the first that fails
RECURSIVE RequestsCalls(_, _, _)
RequestsCalls(ch, su, ids) ==
    IF ids = <<>> THEN <<>>
    ELSE NextOperationCalls(ch, su, Head(ids))
            \o (IF get_next_operation(ch, su, Head(ids)).tag # "Ok" THEN <<>>
                ELSE RequestsCalls(ch, su, Tail(ids)))

RECURSIVE NextOperations(_, _, _)
NextOperations(ch, su, ids) ==
    IF ids = <<>> THEN <<>>
    ELSE <<get_next_operation(ch, su, Head(ids))>> \o NextOperations(ch, su, Tail(ids))

\* transform_multi is called; the requests are computed, one after the other,
\* each next operation unwrapped
TransformMultiCall(ids) ==
    /\ tm.pc = "idle"
    /\ LET ops == NextOperations(chains, summaries, ids)
           called == [TmIdle EXCEPT !.op = "transform_multi", !.ids = ids, !.pre = Before,
                                    !.repo = RequestsCalls(chains, summaries, ids)]
       IN  IF \E i \in 1..Len(ops) : ops[i].tag # "Ok"
           THEN tm' = [called EXCEPT !.pc = "panicked",
                          !.panic = Some(ops[CHOOSE i \in 1..Len(ops) :
                                            /\ ops[i].tag # "Ok"
                                            /\ \A j \in 1..(i - 1) : ops[j].tag = "Ok"].err)]
           ELSE tm' = [called EXCEPT !.pc = "spawn",
                                     !.requests = [i \in 1..Len(ops) |-> ops[i].req]]
    /\ UNCHANGED <<repoVars, now, ret, ad, workers, locks>>

\* transform_multi called on its own
TransformMulti(ids) ==
    /\ TransformMultiCall(ids)
    /\ UNCHANGED pullVars

\* the calling thread takes the next request: without one the dataset is
\* UpToDate; with one it asks for a listener and spawns the worker thread
Spawn ==
    /\ tm.pc = "spawn"
    /\ tm.spawned < Len(tm.requests)
    /\ LET k == tm.spawned + 1
           id == tm.ids[k]
       IN  IF ~IsSome(tm.requests[k])
           THEN /\ tm' = [tm EXCEPT !.spawned = k,
                                    !.results = Append(@, <<id, UpToDate>>)]
                /\ UNCHANGED workers
           ELSE /\ tm' = [tm EXCEPT !.spawned = k,
                                    !.events = Append(@, Event(k, id, "begin_transform")),
                                    !.repo = Append(@, RepoCall("get_metadata_chain", id,
                                                                Len(workers) - tm.joined))]
                /\ workers' = Append(workers, Worker(id, Unwrap(tm.requests[k]), k))
    /\ UNCHANGED <<repoVars, now, ret, ad, pullVars, locks>>

\* every request is handled: the calling thread goes on to join the workers
Spawned ==
    /\ tm.pc = "spawn"
    /\ tm.spawned = Len(tm.requests)
    /\ tm' = [tm EXCEPT !.pc = "join"]
    /\ UNCHANGED <<repoVars, now, ret, ad, pullVars, workers, locks>>

\* do_transform with HEAD read and the listener not told
BeginMut(w) ==
    /\ workers[w].pc = "spawned"
    /\ workers' = [workers EXCEPT ![w].pc = "lock_factory",
                                  ![w].prev_hash = Some(chains[workers[w].id].head)]
    /\ UNCHANGED <<repoVars, now, ret, ad, pullVars, locks, tm>>

\* do_transform: the listener is told, HEAD is read
Begin(w) ==
    /\ workers[w].pc = "spawned"
    /\ workers' = [workers EXCEPT ![w].pc = "lock_factory",
                                  ![w].prev_hash = Some(chains[workers[w].id].head)]
    /\ tm' = [tm EXCEPT !.events = Append(@, Event(workers[w].listener, workers[w].id, "begin"))]
    /\ UNCHANGED <<repoVars, now, ret, ad, pullVars, locks>>

\* engine_factory.lock()
LockFactory(w) ==
    /\ workers[w].pc = "lock_factory"
    /\ locks.factory = 0
    /\ locks' = [locks EXCEPT !.factory = w]
    /\ workers' = [workers EXCEPT ![w].pc = "get_engine"]
    /\ UNCHANGED <<repoVars, now, ret, ad, pullVars, tm>>

\* get_engine(..)?, and the factory is unlocked
GetEngine(w) ==
    /\ workers[w].pc = "get_engine"
    /\ locks' = [locks EXCEPT !.factory = 0]
    /\ IF EngineFound(workers[w].request.source.engine)
       THEN /\ workers' = [workers EXCEPT ![w].pc = "lock_engine"]
            /\ UNCHANGED tm
       ELSE /\ workers' = [workers EXCEPT ![w].pc = "finished",
                              ![w].res = Some(TransformErr("engine not found"))]
            /\ tm' = [tm EXCEPT !.events =
                        Append(@, Event(workers[w].listener, workers[w].id, "error"))]
    /\ UNCHANGED <<repoVars, now, ret, ad, pullVars>>

\* transform(request) entered without waiting for the engine to be free
LockEngineMut(w) ==
    /\ workers[w].pc = "lock_engine"
    /\ locks' = [locks EXCEPT !.engine[workers[w].request.source.engine] = w]
    /\ workers' = [workers EXCEPT ![w].pc = "in_engine"]
    /\ tm' = [tm EXCEPT !.calls = Append(@, [engine |-> workers[w].request.source.engine,
                                             request |-> workers[w].request])]
    /\ UNCHANGED <<repoVars, now, ret, ad, pullVars>>

\* engine.lock(), and transform(request) is entered
LockEngine(w) ==
    /\ workers[w].pc = "lock_engine"
    /\ locks.engine[workers[w].request.source.engine] = 0
    /\ locks' = [locks EXCEPT !.engine[workers[w].request.source.engine] = w]
    /\ workers' = [workers EXCEPT ![w].pc = "in_engine"]
    /\ tm' = [tm EXCEPT !.calls = Append(@, [engine |-> workers[w].request.source.engine,
                                             request |-> workers[w].request])]
    /\ UNCHANGED <<repoVars, now, ret, ad, pullVars>>

\* transform(request) returns, with an error or a block, and the engine is unlocked
EngineReturn(w) ==
    /\ workers[w].pc = "in_engine"
    /\ locks' = [locks EXCEPT !.engine[workers[w].request.source.engine] = 0]
    /\ \/ /\ workers' = [workers EXCEPT ![w].pc = "finished",
                            ![w].res = Some(TransformErr("engine"))]
          /\ tm' = [tm EXCEPT !.events =
                      Append(@, Event(workers[w].listener, workers[w].id, "error"))]
          /\ UNCHANGED bulk
       \/ \E block \in EngineResponses(workers[w].request, now) :
            /\ workers' = [workers EXCEPT ![w].pc = "append", ![w].block = Some(block)]
            /\ bulk' = [bulk EXCEPT ![workers[w].id] = Written(@, block)]
            /\ UNCHANGED tm
    /\ UNCHANGED <<chains, summaries, now, ret, ad, pullVars>>

\* the block is stitched onto the HEAD read at the beginning and appended; a
\* chain whose HEAD has moved since may refuse it
AppendBlock(w) ==
    /\ workers[w].pc = "append"
    /\ LET id == workers[w].id
           new_block == Stitch(Unwrap(workers[w].block), Unwrap(workers[w].prev_hash))
           chain == ChainAppend(chains[id], new_block)
       IN  \/ /\ chains' = [chains EXCEPT ![id] = chain]
              /\ workers' = [workers EXCEPT ![w].pc = "finished",
                                ![w].res = Some(Updated(chain.head))]
              /\ tm' = [tm EXCEPT !.events =
                          Append(@, Event(workers[w].listener, id, "success"))]
           \/ /\ chains[id].head # Unwrap(workers[w].prev_hash)
              /\ workers' = [workers EXCEPT ![w].pc = "panicked"]
              /\ UNCHANGED <<chains, tm>>
    /\ UNCHANGED <<summaries, bulk, now, ret, ad, pullVars, locks>>

\* h.join().unwrap(), in the order the workers were spawned
Join ==
    /\ tm.pc = "join"
    /\ tm.joined < Len(workers)
    /\ LET w == tm.joined + 1 IN
        \/ /\ workers[w].pc = "finished"
           /\ tm' = [tm EXCEPT !.joined = w,
                       !.results = Append(@, <<workers[w].id, Unwrap(workers[w].res)>>)]
        \/ /\ workers[w].pc = "panicked"
           /\ tm' = [tm EXCEPT !.pc = "panicked"]
    /\ UNCHANGED <<repoVars, now, ret, ad, pullVars, workers, locks>>

\* the repository calls of the summary updates, made while live workers run
RECURSIVE SummariesCalls(_, _)
SummariesCalls(results, live) ==
    IF results = <<>> THEN <<>>
    ELSE LET calls == IF Head(results)[2].tag = "Err" THEN <<>>
                      ELSE UpdateSummaryCalls(Head(results)[1], Head(results)[2])
         IN  [i \in 1..Len(calls) |-> [calls[i] EXCEPT !.live = live]]
                \o SummariesCalls(Tail(results), live)

\* the summary updated at every Ok result: an UpToDate one stamps last_pulled
UpdatedSummariesMut(su, ch, bk, results) ==
    [id \in DOMAIN su |->
        IF \E i \in 1..Len(results) : results[i][1] = id /\ results[i][2].tag = "Updated"
        THEN UpdatedSummary(su[id],
                 get_block(ch[id], results[CHOOSE i \in 1..Len(results) :
                     results[i][1] = id /\ results[i][2].tag = "Updated"][2].block_hash), bk)
        ELSE IF \E i \in 1..Len(results) : results[i][1] = id /\ results[i][2] = UpToDate
        THEN [su[id] EXCEPT !.last_pulled = Some(0)]
        ELSE su[id]]

RECURSIVE UpdatedSummaries(_, _, _, _)
UpdatedSummaries(su, ch, bk, results) ==
    IF results = <<>> THEN su
    ELSE LET id == Head(results)[1]
             res == Head(results)[2]
         IN  UpdatedSummaries(
                IF res.tag = "Updated"
                THEN [su EXCEPT ![id] = UpdatedSummary(@, get_block(ch[id], res.block_hash), bk)]
                ELSE su,
                ch, bk, Tail(results))

\* the summaries updated without waiting for the workers
UpdateSummariesMut ==
    /\ tm.pc = "join"
    /\ summaries' = UpdatedSummaries(summaries, chains, bulk, tm.results)
    /\ tm' = [tm EXCEPT !.pc = "done",
                        !.repo = @ \o SummariesCalls(tm.results, Len(workers) - tm.joined)]
    /\ UNCHANGED <<chains, bulk, now, ret, ad, pullVars, workers, locks>>

\* the workers are joined: the summary of every dataset with an Ok result is
\* updated, and the results are returned
UpdateSummaries ==
    /\ tm.pc = "join"
    /\ tm.joined = Len(workers)
    /\ summaries' = UpdatedSummaries(summaries, chains, bulk, tm.results)
    /\ tm' = [tm EXCEPT !.pc = "done",
                        !.repo = @ \o SummariesCalls(tm.results, Len(workers) - tm.joined)]
    /\ UNCHANGED <<chains, bulk, now, ret, ad, pullVars, workers, locks>>

\* a block of the ingest service with an output slice, on top of chain
IngestedBlock(chain, t) ==
    [block_hash |-> EmptyHash,
     prev_block_hash |-> chain.head,
     system_time |-> t,
     source |-> None,
     output_slice |-> Some([num_records |-> 1]),
     output_watermark |-> None,
     input_slices |-> None]

\* the repository of workspace w after an ingest into each root dataset of fed
Fed(w, fed) ==
    LET ch == ChainsAfterAdding(w, 0)
        su == SummariesAfterAdding(w, 0)
        chain(id) == ChainAppend(ch[id], IngestedBlock(ch[id], 0))
        dirs == [id \in Ids |-> IF id \in fed THEN {"data", "checkpoints"} ELSE {}]
    IN  [chains |-> [id \in DOMAIN ch |-> IF id \in fed THEN chain(id) ELSE ch[id]],
         summaries |-> [id \in DOMAIN su |->
             IF id \in fed
             THEN UpdatedSummary(su[id], get_block(chain(id), chain(id).head), dirs)
             ELSE su[id]],
         bulk |-> dirs]

Roots(w) == {w[i].id : i \in {j \in 1..Len(w) : w[j].source.kind = "root"}}

InitMulti ==
    /\ \E w \in Workspaces : \E fed \in SUBSET Roots(w) :
          /\ chains = Fed(w, fed).chains
          /\ summaries = Fed(w, fed).summaries
          /\ bulk = Fed(w, fed).bulk
    /\ now \in 0..MaxTime
    /\ ret = NoCall
    /\ ad = AdIdle
    /\ cmd = CmdNone
    /\ tm = TmIdle
    /\ workers = <<>>
    /\ locks = LocksFree

NextMulti ==
    \/ \E ids \in MultiIds : TransformMulti(ids)
    \/ Spawn
    \/ Spawned
    \/ \E w \in 1..Len(workers) : Begin(w)
    \/ \E w \in 1..Len(workers) : LockFactory(w)
    \/ \E w \in 1..Len(workers) : GetEngine(w)
    \/ \E w \in 1..Len(workers) : LockEngine(w)
    \/ \E w \in 1..Len(workers) : EngineReturn(w)
    \/ \E w \in 1..Len(workers) : AppendBlock(w)
    \/ Join
    \/ UpdateSummaries

SpecMulti == InitMulti /\ [][NextMulti]_vars


(***************************************************************************)
(* PullService::pull_multi: the datasets to pull are ordered by depth and   *)
(* pulled wave after wave, the roots by the ingest service and every other  *)
(* wave by one call of transform_multi                                      *)
(***************************************************************************)
WaveIds == {"r", "a", "b", "d"}

RECURSIVE SeqOf(_)
SeqOf(S) ==
    IF S = {} THEN <<>>
    ELSE LET x == CHOOSE x \in S : TRUE IN <<x>> \o SeqOf(S \ {x})

Max(S) == CHOOSE x \in S : \A y \in S : y <= x

\* roots are at depth 0, a derivative one below the deepest of its inputs
RECURSIVE Depth(_, _)
Depth(su, id) ==
    IF su[id].dependencies = <<>> THEN 0
    ELSE 1 + Max({Depth(su, su[id].dependencies[j]) : j \in 1..Len(su[id].dependencies)})

\* the datasets of S and all their transitive inputs
RECURSIVE WithInputs(_, _)
WithInputs(su, S) ==
    LET T == S \cup UNION {Range(su[id].dependencies) : id \in S}
    IN  IF T = S THEN S ELSE WithInputs(su, T)

\* the waves of a pull: the datasets to pull, by depth
PullPlan(su, ids, recursive, all) ==
    LET starting == IF all THEN DOMAIN su ELSE Range(ids)
        pulled == IF recursive \/ all THEN WithInputs(su, starting) ELSE starting
        depths == {Depth(su, id) : id \in pulled}
        level(k) == SeqOf({id \in pulled : Depth(su, id) = k})
        deepest == IF depths = {} THEN 0 ELSE Max(depths)
    IN  SelectSeq([k \in 1..(deepest + 1) |-> level(k - 1)], LAMBDA wave : wave # <<>>)

PullIdle == [pc |-> "none", plan |-> <<>>, wave |-> 0, results |-> <<>>]

PullMulti(ids, recursive, all) ==
    /\ cmd.pc = "none"
    /\ Range(ids) \subseteq DOMAIN summaries
    /\ cmd' = [PullIdle EXCEPT !.pc = "waves",
                               !.plan = PullPlan(summaries, ids, recursive, all)]
    /\ UNCHANGED <<repoVars, now, ret, ad, xfVars>>

NextWave == cmd.plan[cmd.wave + 1]
IsRootWave(wave) == summaries[wave[1]].kind = "root"

\* the repository after the ingest service has committed a block to each of fed
AfterIngest(fed, t) ==
    LET chain(id) == ChainAppend(chains[id], IngestedBlock(chains[id], t))
        dirs == [id \in DOMAIN bulk |-> IF id \in fed THEN Written(bulk[id], IngestedBlock(chains[id], t))
                                        ELSE bulk[id]]
    IN  [chains |-> [id \in DOMAIN chains |-> IF id \in fed THEN chain(id) ELSE chains[id]],
         summaries |-> [id \in DOMAIN summaries |->
             IF id \in fed
             THEN UpdatedSummary(summaries[id], get_block(chain(id), chain(id).head), dirs)
             ELSE summaries[id]],
         bulk |-> dirs]

\* the wave of the roots: each has new data to ingest, or is up to date
WaveIngest ==
    /\ cmd.pc = "waves"
    /\ cmd.wave < Len(cmd.plan)
    /\ IsRootWave(NextWave)
    /\ \E fed \in SUBSET Range(NextWave) :
          /\ chains' = AfterIngest(fed, now).chains
          /\ summaries' = AfterIngest(fed, now).summaries
          /\ bulk' = AfterIngest(fed, now).bulk
          /\ cmd' = [cmd EXCEPT !.wave = @ + 1,
                        !.results = @ \o [i \in 1..Len(NextWave) |->
                            <<NextWave[i],
                              IF NextWave[i] \in fed
                              THEN Updated(AfterIngest(fed, now).chains[NextWave[i]].head)
                              ELSE UpToDate>>]]
    /\ UNCHANGED <<now, ret, ad, xfVars>>

\* a wave of derivative datasets: transform_multi is called with the wave
WaveTransform ==
    /\ cmd.pc = "waves"
    /\ cmd.wave < Len(cmd.plan)
    /\ ~IsRootWave(NextWave)
    /\ TransformMultiCall(NextWave)
    /\ UNCHANGED pullVars

\* transform_multi has returned: its results are collected, its threads are
\* gone, and the next wave may begin
WaveDone ==
    /\ cmd.pc = "waves"
    /\ tm.pc \in {"done", "panicked"}
    /\ cmd' = IF tm.pc = "panicked" THEN [cmd EXCEPT !.pc = "panicked"]
              ELSE [cmd EXCEPT !.wave = @ + 1, !.results = @ \o tm.results]
    /\ tm' = TmIdle
    /\ workers' = SelectSeq(workers, LAMBDA w : w.pc \notin {"finished", "panicked"})
    /\ UNCHANGED <<repoVars, now, ret, ad, locks>>

PullReturn ==
    /\ cmd.pc = "waves"
    /\ cmd.wave = Len(cmd.plan)
    /\ cmd' = [cmd EXCEPT !.pc = "done"]
    /\ UNCHANGED <<repoVars, now, ret, ad, xfVars>>

\* the workspaces of the pulls: a diamond, and a chain next to a second root
WaveWorkspaces ==
    {<<RootSnapshot("r"), DerivativeSnapshotOn("a", <<"r">>, "spark"),
       DerivativeSnapshotOn("b", <<"r">>, "flink"),
       DerivativeSnapshotOn("d", <<"a", "b">>, "spark")>>,
     <<RootSnapshot("r"), RootSnapshot("b"), DerivativeSnapshotOn("a", <<"r">>, "spark"),
       DerivativeSnapshotOn("d", <<"a", "b">>, "flink")>>}

PullIds == {<<>>, <<"d">>, <<"a", "d">>}

InitWaves ==
    /\ \E w \in WaveWorkspaces :
          /\ chains = ChainsAfterAdding(w, 0)
          /\ summaries = SummariesAfterAdding(w, 0)
    /\ bulk = [id \in WaveIds |-> {}]
    /\ now \in 0..MaxTime
    /\ ret = NoCall
    /\ ad = AdIdle
    /\ cmd = PullIdle
    /\ tm = TmIdle
    /\ workers = <<>>
    /\ locks = LocksFree

NextWaves ==
    \/ \E ids \in PullIds, recursive, all \in BOOLEAN :
          /\ (ids = <<>>) = all
          /\ PullMulti(ids, recursive /\ ~all, all)
    \/ WaveIngest
    \/ WaveTransform
    \/ WaveDone
    \/ PullReturn
    \/ Spawn
    \/ Spawned
    \/ \E w \in 1..Len(workers) : Begin(w)
    \/ \E w \in 1..Len(workers) : LockFactory(w)
    \/ \E w \in 1..Len(workers) : GetEngine(w)
    \/ \E w \in 1..Len(workers) : LockEngine(w)
    \/ \E w \in 1..Len(workers) : EngineReturn(w)
    \/ \E w \in 1..Len(workers) : AppendBlock(w)
    \/ Join
    \/ UpdateSummaries

SpecWaves == InitWaves /\ [][NextWaves]_vars


(***************************************************************************)
(* Chains that declare their source more than once                          *)
(***************************************************************************)
MaxSources == 2     \* most blocks of one chain that carry a source

SourceBlocks(chain) == {b \in chain.blocks : IsSome(b.source)}

\* a block that declares source is appended to the chain of derivative id:
\* the source it has, once more, or the same transform on another engine
EvolveSource(id) ==
    /\ tm.pc \in {"idle", "done"}
    /\ dataset_exists(chains, id)
    /\ summaries[id].kind = "derivative"
    /\ Cardinality(SourceBlocks(chains[id])) < MaxSources
    /\ \E engine \in Engines :
        LET block == [block_hash |-> EmptyHash,
                      prev_block_hash |-> chains[id].head,
                      system_time |-> now,
                      source |-> Some(DerivativeSource(summaries[id].dependencies, engine)),
                      output_slice |-> None,
                      output_watermark |-> None,
                      input_slices |-> None]
        IN  chains' = [chains EXCEPT ![id] = ChainAppend(@, block)]
    /\ tm' = TmIdle
    /\ UNCHANGED <<summaries, bulk, now, ret, ad, pullVars, workers, locks>>

NextSources ==
    \/ \E id \in Ids : EvolveSource(id)
    \/ \E id \in Ids : Ingest(id)
    \/ \E id \in Ids : Transform(id)

SpecSources == InitTransform /\ [][NextSources]_vars


(***************************************************************************)
(* DatasetID, DatasetIDBuf and the grammar of dataset ids. A string is the  *)
(* sequence of its characters.                                              *)
(***************************************************************************)
MaxIdLen == 3       \* longest string given to a constructor

Lower == {"a", "b", "c", "d", "e", "f", "g", "h", "i", "j", "k", "l", "m",
          "n", "o", "p", "q", "r", "s", "t", "u", "v", "w", "x", "y", "z"}
Digits == {"0", "1", "2", "3", "4", "5", "6", "7", "8", "9"}
Alphanums == Lower \cup Digits
Separators == {".", "-", "_"}

\* the characters of the strings tried
IdChars == {"a", "b", "1", ".", "-", "_", " ", "A"}
Strings == UNION {[1..n -> IdChars] : n \in 0..MaxIdLen}

\* what is left of s after its longest prefix of alphanumerics; None without one
RECURSIVE SkipAlphanums(_)
SkipAlphanums(s) ==
    IF s # <<>> /\ Head(s) \in Alphanums THEN SkipAlphanums(Tail(s)) ELSE s

match_alphanums(s) ==
    IF s # <<>> /\ Head(s) \in Alphanums THEN Some(SkipAlphanums(s)) ELSE None

\* zero or many of: one of seps, then alphanumerics
RECURSIVE match_zero_or_many(_, _)
match_zero_or_many(s, seps) ==
    IF s # <<>> /\ Head(s) \in seps /\ IsSome(match_alphanums(Tail(s)))
    THEN match_zero_or_many(Unwrap(match_alphanums(Tail(s))), seps)
    ELSE s

\* segment = alphanumerics (("-" | "_") alphanumerics)*
match_segment(s) ==
    IF IsSome(match_alphanums(s))
    THEN Some(match_zero_or_many(Unwrap(match_alphanums(s)), {"-", "_"}))
    ELSE None

RECURSIVE match_segments(_)
match_segments(s) ==
    IF s # <<>> /\ Head(s) = "." /\ IsSome(match_segment(Tail(s)))
    THEN match_segments(Unwrap(match_segment(Tail(s))))
    ELSE s

\* dataset_id = segment ("." segment)*, the first segment starting with a
\* letter: what is left of s after the match, or None
match_dataset_id(s) ==
    IF s # <<>> /\ Head(s) \in Lower /\ IsSome(match_segment(s))
    THEN Some(match_segments(Unwrap(match_segment(s))))
    ELSE None

OkValue(v) == [tag |-> "Ok", value |-> v]
InvalidDatasetID(s) == [tag |-> "InvalidDatasetID", invalid_id |-> s]

\* DatasetID::new_unchecked: the string, taken for a DatasetID as it is
new_unchecked(s) == [id |-> s]

\* try_from accepting whatever the grammar matches a prefix of
DatasetID_try_fromMut(s) ==
    IF IsSome(match_dataset_id(s)) THEN OkValue(new_unchecked(s))
    ELSE InvalidDatasetID(s)

\* DatasetID::try_from: Some((_, "")) => Ok, _ => Err
DatasetID_try_from(s) ==
    IF IsSome(match_dataset_id(s)) /\ Unwrap(match_dataset_id(s)) = <<>>
    THEN OkValue(new_unchecked(s))
    ELSE InvalidDatasetID(s)

\* From<&DatasetID> for DatasetIDBuf, and to_owned
DatasetIDBuf_from(id) == [id |-> id.id]

\* TryFrom<&str> for DatasetIDBuf
DatasetIDBuf_try_from(s) ==
    IF DatasetID_try_from(s).tag = "Ok"
    THEN OkValue(DatasetIDBuf_from(DatasetID_try_from(s).value))
    ELSE DatasetID_try_from(s)

from_str(s) == DatasetIDBuf_try_from(s)

\* DatasetIDBufSerdeVisitor::visit_str: the error becomes a custom serde error
visit_str(v) ==
    IF DatasetIDBuf_try_from(v).tag = "Ok" THEN DatasetIDBuf_try_from(v)
    ELSE [tag |-> "serde::de::Error::custom", message |-> DatasetIDBuf_try_from(v)]

\* DatasetIDBuf::new and Default
DatasetIDBuf_new == [id |-> <<>>]
DatasetIDBuf_default == DatasetIDBuf_new

Called(op, arg, res) == [op |-> op, arg |-> arg, res |-> res, pre |-> NoRepo]

\* a string is at hand, no constructor called yet
Given(s) == Called("none", Some(s), Ok)

IdsIdle == <<repoVars, now, ad, pullVars, xfVars>>

TryFrom ==
    /\ ret.op = "none"
    /\ ret' = Called("DatasetID::try_from", ret.arg, DatasetID_try_from(Unwrap(ret.arg)))
    /\ UNCHANGED IdsIdle

BufTryFrom ==
    /\ ret.op = "none"
    /\ ret' = Called("DatasetIDBuf::try_from", ret.arg, DatasetIDBuf_try_from(Unwrap(ret.arg)))
    /\ UNCHANGED IdsIdle

FromStr ==
    /\ ret.op = "none"
    /\ ret' = Called("DatasetIDBuf::from_str", ret.arg, from_str(Unwrap(ret.arg)))
    /\ UNCHANGED IdsIdle

VisitStr ==
    /\ ret.op = "none"
    /\ ret' = Called("deserialize", ret.arg, visit_str(Unwrap(ret.arg)))
    /\ UNCHANGED IdsIdle

BufNew ==
    /\ ret.op = "none"
    /\ ret' = Called("DatasetIDBuf::new", None, OkValue(DatasetIDBuf_new))
    /\ UNCHANGED IdsIdle

BufDefault ==
    /\ ret.op = "none"
    /\ ret' = Called("DatasetIDBuf::default", None, OkValue(DatasetIDBuf_default))
    /\ UNCHANGED IdsIdle

\* DatasetID::new_unchecked is public
NewUnchecked ==
    /\ ret.op = "none"
    /\ ret' = Called("DatasetID::new_unchecked", ret.arg, OkValue(new_unchecked(Unwrap(ret.arg))))
    /\ UNCHANGED IdsIdle

\* to_owned, of a DatasetID obtained before
ToOwned ==
    /\ ret.op = "DatasetID::try_from"
    /\ ret.res.tag = "Ok"
    /\ ret' = Called("to_owned", ret.arg, OkValue(DatasetIDBuf_from(ret.res.value)))
    /\ UNCHANGED IdsIdle

InitIds ==
    /\ chains = <<>>
    /\ summaries = <<>>
    /\ bulk = [id \in Ids |-> {}]
    /\ now = 0
    /\ ret \in {Given(s) : s \in Strings}
    /\ ad = AdIdle
    /\ cmd = CmdNone
    /\ tm = TmIdle
    /\ workers = <<>>
    /\ locks = LocksFree

NextIds ==
    \/ TryFrom
    \/ BufTryFrom
    \/ FromStr
    \/ VisitStr
    \/ BufNew
    \/ BufDefault
    \/ NewUnchecked
    \/ ToOwned

SpecIds == InitIds /\ [][NextIds]_vars


(***************************************************************************)
(* get_summary, and add_dataset when the summary file cannot be written     *)
(***************************************************************************)
InfraError == [tag |-> "InfraError"]

\* MetadataRepository::get_summary: decided by the summary path alone
get_summary(su, dataset_id) ==
    IF dataset_id \notin DOMAIN su THEN DoesNotExist(dataset_id)
    ELSE OkValue(su[dataset_id])

GetSummary(id) ==
    /\ ret' = [op |-> "get_summary", arg |-> id, res |-> get_summary(summaries, id),
               pre |-> Before]
    /\ UNCHANGED <<repoVars, now, ad, pullVars, xfVars>>

\* add_dataset whose update_summary fails on File::create or on the write:
\* the chain is created already, the error is returned through `?`
AddDatasetIoError(snapshot) ==
    /\ AddDatasetResult(chains, snapshot) = Ok
    /\ chains' = AddDatasetChains(chains, snapshot, now)
    /\ ret' = [op |-> "add_dataset", arg |-> snapshot, res |-> InfraError, pre |-> Before]
    /\ UNCHANGED <<summaries, bulk, now, ad, pullVars, xfVars>>

NextSummary ==
    \/ \E s \in Snapshots : AddDataset(s)
    \/ \E s \in Snapshots : AddDatasetIoError(s)
    \/ \E id \in Ids : GetSummary(id)

SpecSummary == InitRepo /\ [][NextSummary]_vars


(***************************************************************************)
(* DockerClient: wait_for_container, wait_for_host_port, wait_for_socket.   *)
(* Time is counted in sleeps of 500 ms; now is the monotonic clock.         *)
(***************************************************************************)
MaxTimeout == 2     \* longest timeout given to a wait
MaxClock == MaxTimeout + 2

Waits == {"wait_for_container", "wait_for_host_port", "wait_for_socket"}
HostPort == 8080

\* what one probe can come to: docker inspect (not run, run and failed, run
\* and succeeded), get_host_port (None, Some(port)), check_socket (a bool)
ProbeOutcomes(wait) ==
    CASE wait = "wait_for_container" -> {"Err", "Ok(failure)", "Ok(success)"}
      [] wait = "wait_for_host_port" -> {None, Some(HostPort)}
      [] wait = "wait_for_socket" -> {FALSE, TRUE}

ProbeSucceeded(wait, outcome) ==
    CASE wait = "wait_for_container" -> outcome = "Ok(success)"
      [] wait = "wait_for_host_port" -> IsSome(outcome)
      [] wait = "wait_for_socket" -> outcome

\* break Ok(()), or Ok(hp) of wait_for_host_port
WaitOk(wait, outcome) ==
    IF wait = "wait_for_host_port" THEN OkValue(Unwrap(outcome)) ELSE Ok

TimeoutError(timeout) == [tag |-> "TimeoutError", duration |-> timeout]

\* the timeout test with > in the place of >=
TimedOutMut(elapsed, timeout) == elapsed > timeout

\* start.elapsed() >= timeout
TimedOut(elapsed, timeout) == elapsed >= timeout

WaitIdle == <<repoVars, ad, pullVars, xfVars>>

\* a wait is called: let start = Instant::now()
WaitCall(wait, timeout) ==
    /\ ret.op = "none"
    /\ ret' = [op |-> wait, pc |-> "loop", start |-> now, timeout |-> timeout,
               probes |-> <<>>, res |-> Ok]
    /\ UNCHANGED <<now, WaitIdle>>

\* one turn of the loop up to its break or its sleep: the probe, which takes
\* time, then the tests of its outcome and of the time elapsed
Probe ==
    /\ ret.op \in Waits
    /\ ret.pc = "loop"
    /\ \E outcome \in ProbeOutcomes(ret.op), t \in now..(IF now < MaxClock THEN now + 1 ELSE now) :
        /\ now' = t
        /\ LET probe == [ok |-> ProbeSucceeded(ret.op, outcome), elapsed |-> t - ret.start] IN
            ret' = IF probe.ok
                   THEN [ret EXCEPT !.pc = "done", !.probes = Append(@, probe),
                                    !.res = WaitOk(ret.op, outcome)]
                   ELSE IF TimedOut(probe.elapsed, ret.timeout)
                   THEN [ret EXCEPT !.pc = "done", !.probes = Append(@, probe),
                                    !.res = TimeoutError(ret.timeout)]
                   ELSE [ret EXCEPT !.pc = "sleep", !.probes = Append(@, probe)]
    /\ UNCHANGED WaitIdle

\* std::thread::sleep(Duration::from_millis(500)): at least one unit passes
Sleep ==
    /\ ret.op \in Waits
    /\ ret.pc = "sleep"
    /\ \E t \in (now + 1)..(IF now + 2 <= MaxClock THEN now + 2 ELSE now + 1) :
        now' = t
    /\ ret' = [ret EXCEPT !.pc = "loop"]
    /\ UNCHANGED WaitIdle

\* time passes before the wait is called
Earlier ==
    /\ ret.op = "none"
    /\ now < 1
    /\ now' = now + 1
    /\ UNCHANGED <<ret, WaitIdle>>

NextWait ==
    \/ \E wait \in Waits, timeout \in 0..MaxTimeout : WaitCall(wait, timeout)
    \/ Probe
    \/ Sleep
    \/ Earlier

SpecWait == InitRepo /\ [][NextWait]_vars

\* the thread that waits is never stopped: a probe returns, a sleep ends
SpecWaitFair ==
    /\ SpecWait
    /\ WF_vars(Probe)
    /\ WF_vars(Sleep)


(***************************************************************************)
(* The repository under add_dataset, add_datasets and delete_dataset in any *)
(* order                                                                    *)
(***************************************************************************)
MaxShortBatch == 2  \* most snapshots in one add_datasets call made among other calls

\* add_datasets is called on a short batch
AddDatasetsCallShort ==
    /\ ad.pc = "idle"
    /\ \E ids \in DistinctSeqs(Ids, 1, MaxShortBatch) : \E sh \in [1..Len(ids) -> Shapes] :
        LET batch == BatchOf(ids, sh) IN
        /\ ad' = [pc |-> "sort", batch |-> batch, snapshots |-> batch,
                  pending |-> SnapshotIds(batch), added |-> {},
                  ordered |-> <<>>, results |-> <<>>]
        /\ ret' = [op |-> "add_datasets", arg |-> batch, res |-> Ok, pre |-> Before]
    /\ UNCHANGED <<chains, summaries, bulk, now, pullVars, xfVars>>

\* add_datasets has returned: the repository takes the next call
AddDatasetsReturned ==
    /\ ad.pc = "done"
    /\ ad' = AdIdle
    /\ UNCHANGED <<repoVars, now, ret, pullVars, xfVars>>

NextIntegrity ==
    \/ \E s \in Snapshots : AddDataset(s)
    \/ \E id \in Ids : DeleteDataset(id)
    \/ AddDatasetsCallShort
    \/ SortStep
    \/ SortReturn
    \/ AddStep
    \/ AddDatasetsReturn
    \/ AddDatasetsReturned

SpecIntegrity == InitRepo /\ [][NextIntegrity]_vars


(***************************************************************************)
(* Claims                                                                   *)
(***************************************************************************)

\* C1: add_datasets emits every derivative snapshot after every member of the
\* batch (pairwise distinct ids) that its inputs list, and when the ordering
\* loop returns it has emitted each snapshot of the batch exactly once; for the
\* batch [D(inputs=[R]), R] handed to a repository that holds neither, the
\* order is [R, D] and both additions succeed.
C1_DependencyOrderedAdd ==
    /\ \A i \in 1..Len(ad.ordered) :
          \A k \in 1..Len(ad.ordered[i].source.inputs) :
             ad.ordered[i].source.inputs[k] \in SnapshotIds(ad.batch)
                => \E j \in 1..(i - 1) :
                      ad.ordered[j].id = ad.ordered[i].source.inputs[k]
    /\ ad.pc \in {"add", "done"} =>
          /\ Len(ad.ordered) = Len(ad.batch)
          /\ Range(ad.ordered) = Range(ad.batch)
    /\ ( /\ ad.pc = "done"
         /\ Len(ad.batch) = 2
         /\ ad.batch[2].source.kind = "root"
         /\ ad.batch[1].source.kind = "derivative"
         /\ ad.batch[1].source.inputs = <<ad.batch[2].id>>
         /\ SnapshotIds(ad.batch) \cap DOMAIN ret.pre.chains = {} )
        => /\ ad.ordered = <<ad.batch[2], ad.batch[1]>>
           /\ ad.results = <<<<ad.batch[2].id, Ok>>, <<ad.batch[1].id, Ok>>>>
           /\ SnapshotIds(ad.batch) \subseteq DOMAIN chains

\* a batch of three given in reverse dependency order has been reordered and added
C1_Witness ==
    /\ ad.pc = "done"
    /\ Len(ad.batch) = 3
    /\ ad.batch[1].source.inputs = <<ad.batch[2].id>>
    /\ ad.batch[2].source.inputs = <<ad.batch[3].id>>
    /\ ad.ordered = <<ad.batch[3], ad.batch[2], ad.batch[1]>>
    /\ \A i \in 1..3 : ad.results[i][2] = Ok

\* the datasets of the state a call ran in, other than id, that list id
ListedBy(pre, id) ==
    {x \in DOMAIN pre.chains \ {id} :
        \E i \in 1..Len(pre.summaries[x].dependencies) :
            pre.summaries[x].dependencies[i] = id}

\* C2: delete_dataset(R) while another dataset lists R in its dependencies
\* fails with DanglingReference naming exactly the dependents, and R's chain,
\* summary and bulk directories are as before and R is still listed.
C2_DeleteSafety ==
    (ret.op = "delete_dataset" /\ ListedBy(ret.pre, ret.arg) # {})
        => /\ ret.res.tag = "DanglingReference"
           /\ ret.res.from_ids = ListedBy(ret.pre, ret.arg)
           /\ ret.res.to_id = ret.arg
           /\ ret.arg \in DOMAIN ret.pre.chains
           /\ ret.arg \in DOMAIN chains
           /\ chains[ret.arg] = ret.pre.chains[ret.arg]
           /\ summaries[ret.arg] = ret.pre.summaries[ret.arg]
           /\ bulk[ret.arg] = ret.pre.bulk[ret.arg]

\* a delete refused because of two dependents, of a dataset that has bulk data
C2_Witness ==
    /\ ret.op = "delete_dataset"
    /\ ret.res.tag = "DanglingReference"
    /\ Cardinality(ret.res.from_ids) = 2
    /\ bulk[ret.arg] # {}

AddUnresolved ==
    /\ ret.op = "add_dataset"
    /\ ret.arg.source.kind = "derivative"
    /\ \E i \in 1..Len(ret.arg.source.inputs) :
          ret.arg.source.inputs[i] \notin DOMAIN ret.pre.chains

FailsWithMissingReference ==
    /\ ret.res.tag = "MissingReference"
    /\ ret.res.from_id = ret.arg.id
    /\ \E i \in 1..Len(ret.arg.source.inputs) :
          /\ ret.res.to_id = ret.arg.source.inputs[i]
          /\ ret.arg.source.inputs[i] \notin DOMAIN ret.pre.chains
          /\ \A j \in 1..(i - 1) : ret.arg.source.inputs[j] \in DOMAIN ret.pre.chains
    /\ chains = ret.pre.chains
    /\ summaries = ret.pre.summaries
    /\ bulk = ret.pre.bulk

\* C3 as stated: add_dataset of a derivative snapshot with an unresolved input
\* fails with MissingReference (from the snapshot, to the first unresolved
\* input) and leaves the repository unchanged.
C3_MissingReference_Original ==
    AddUnresolved => FailsWithMissingReference

\* C3 amended: the same for a snapshot whose id is not yet in the repository;
\* for an id that is, add_dataset fails with AlreadyExists before it looks at
\* the inputs, and leaves the repository unchanged too.
C3_MissingReference ==
    AddUnresolved =>
        IF ret.arg.id \in DOMAIN ret.pre.chains
        THEN /\ ret.res = AlreadyExists(ret.arg.id)
             /\ chains = ret.pre.chains
             /\ summaries = ret.pre.summaries
             /\ bulk = ret.pre.bulk
        ELSE /\ FailsWithMissingReference
             /\ ret.arg.id \notin DOMAIN chains
             /\ ret.arg.id \notin DOMAIN summaries

\* a new derivative refused because its second input is the first unresolved one
C3_Witness ==
    /\ AddUnresolved
    /\ ret.arg.id \notin DOMAIN ret.pre.chains
    /\ Len(ret.arg.source.inputs) = 2
    /\ ret.res = MissingReference(ret.arg.id, ret.arg.source.inputs[2])

UsageRow ==
    \/ cmd.ids = <<>> /\ ~cmd.recursive /\ ~cmd.all
    \/ cmd.ids # <<>> /\ cmd.all

\* C4: in both usage-error rows of the argument table, run returns a UsageError
\* and never invokes pull_multi; with no ids and no flags the message is
\* "Specify a dataset or pass --all".
C4_UsageErrors ==
    (cmd.pc # "none" /\ UsageRow)
        => /\ cmd.pull_multi = <<>>
           /\ cmd.pc \in {"new", "done"}
           /\ cmd.pc = "done" =>
                /\ cmd.res.tag = "UsageError"
                /\ cmd.ids = <<>> => cmd.res.msg = "Specify a dataset or pass --all"

\* run has returned a usage error for ids given together with --all
C4_Witness ==
    /\ cmd.pc = "done"
    /\ cmd.ids # <<>>
    /\ cmd.all
    /\ cmd.res.tag = "UsageError"

\* C5 as stated: with no ids and --all, run invokes pull_multi with all = true
\* and returns no usage error, whatever --recursive is.
C5_PullAll_Original ==
    (cmd.pc = "done" /\ cmd.ids = <<>> /\ cmd.all)
        => /\ cmd.res = Ok
           /\ Len(cmd.pull_multi) = 1
           /\ cmd.pull_multi[1].all

\* C5 amended: with no ids, --all and no --recursive, run invokes pull_multi
\* once with no ids and all = true and returns Ok; with no ids, --all and
\* --recursive it returns UsageError("Invalid combination of arguments") and
\* does not invoke pull_multi.
C5_PullAll ==
    (cmd.pc \in {"pulling", "done"} /\ cmd.ids = <<>> /\ cmd.all)
        => IF cmd.recursive
           THEN /\ cmd.pc = "done"
                /\ cmd.res = UsageError("Invalid combination of arguments")
                /\ cmd.pull_multi = <<>>
           ELSE /\ cmd.pull_multi = <<[ids |-> <<>>, recursive |-> FALSE, all |-> TRUE]>>
                /\ cmd.pc = "done" => cmd.res = Ok

\* pull --all has pulled and reported
C5_Witness ==
    /\ cmd.pc = "done"
    /\ cmd.ids = <<>>
    /\ cmd.all
    /\ ~cmd.recursive
    /\ cmd.res = Ok
    /\ Len(cmd.results) = MaxResults


(***************************************************************************)
(* TransformService::transform                                             *)
(***************************************************************************)
Transformed == tm.pc = "done" /\ tm.op = "transform"
TheId == tm.ids[1]
TheResult == tm.results[1][2]
SourceOf(pre, id) ==
    Unwrap((CHOOSE b \in pre.chains[id].blocks : IsSome(b.source)).source)
IsDerivativeIn(pre, id) ==
    /\ id \in DOMAIN pre.chains
    /\ pre.summaries[id].kind = "derivative"
AtGenesis(pre, id) == Cardinality(pre.chains[id].blocks) = 1

\* the blocks transform(id) has appended to the chain of id
AppendedBy(id) == chains[id].blocks \ tm.pre.chains[id].blocks

FreshDerivative ==
    /\ Transformed
    /\ IsDerivativeIn(tm.pre, TheId)
    /\ AtGenesis(tm.pre, TheId)
    /\ \A x \in Range(SourceOf(tm.pre, TheId).inputs) : AtGenesis(tm.pre, x)

\* C6: transform of a freshly added derivative dataset, every input chain of
\* which holds only its genesis block, returns UpToDate, calls no engine and
\* leaves the chain of the derivative (and the whole repository) as it was.
C6_DerivationEmptiness ==
    FreshDerivative =>
        /\ TheResult = UpToDate
        /\ tm.calls = <<>>
        /\ chains[TheId] = tm.pre.chains[TheId]
        /\ Before = tm.pre

C6_Witness ==
    /\ FreshDerivative
    /\ Len(SourceOf(tm.pre, TheId).inputs) = 2
    /\ TheResult = UpToDate

\* input x of the transformed dataset holds its genesis block and one more
\* block, which carries an output slice
OneCommittedBlock(pre, x) ==
    /\ Cardinality(pre.chains[x].blocks) = 2
    /\ IsSome(get_block(pre.chains[x], pre.chains[x].head).output_slice)

DerivationProgressCase(x) ==
    /\ Transformed
    /\ IsDerivativeIn(tm.pre, TheId)
    /\ AtGenesis(tm.pre, TheId)
    /\ x \in Range(SourceOf(tm.pre, TheId).inputs)
    /\ OneCommittedBlock(tm.pre, x)

TimeOfHead(pre, x) == get_block(pre.chains[x], pre.chains[x].head).system_time

\* C7: when input x holds one committed block with an output slice, at time
\* t1, after its genesis block and the output chain holds only its genesis
\* block, transform asks for the interval (-inf, t1] of x; the engine the
\* source names, where it is installed, is called exactly once, with that
\* request; and, the engine answering the call, exactly one block is appended
\* to the output chain, on top of the genesis block, and the result is Updated
\* with the hash of that block. The result is never UpToDate.
C7_DerivationProgress ==
    \A x \in Ids : DerivationProgressCase(x) =>
        /\ IsSome(tm.requests[1])
        /\ Unwrap(tm.requests[1]).input_slices[x].interval
              = [empty |-> FALSE, lo |-> None, lo_open |-> FALSE,
                 hi |-> Some(TimeOfHead(tm.pre, x))]
        /\ Len(tm.calls) <= 1
        /\ EngineFound(SourceOf(tm.pre, TheId).engine) =>
              /\ Len(tm.calls) = 1
              /\ tm.calls[1].request = Unwrap(tm.requests[1])
        /\ TheResult # UpToDate
        /\ IF TheResult.tag = "Updated"
           THEN /\ Len(tm.calls) = 1
                /\ Cardinality(AppendedBy(TheId)) = 1
                /\ \A b \in AppendedBy(TheId) :
                      /\ b.block_hash = TheResult.block_hash
                      /\ b.prev_block_hash = tm.pre.chains[TheId].head
                /\ chains[TheId].head = TheResult.block_hash
           ELSE chains = tm.pre.chains

C7_Witness ==
    \E x \in Ids :
        /\ DerivationProgressCase(x)
        /\ TimeOfHead(tm.pre, x) = 1
        /\ TheResult.tag = "Updated"
        /\ Cardinality(chains[TheId].blocks) = 2

\* the blocks of input j collected as unprocessed when the transform began
CollectedPrefix(pre, id, j) ==
    BlocksUnprocessed(j, pre.chains[SourceOf(pre, id).inputs[j]], pre.chains[id])

\* the slice of input j is empty: no collected block carries an output slice
\* and none carries a watermark
InputSliceEmpty(pre, id, j) ==
    \A i \in 1..Len(CollectedPrefix(pre, id, j)) :
        /\ CollectedPrefix(pre, id, j)[i].output_slice = None
        /\ CollectedPrefix(pre, id, j)[i].output_watermark = None

EveryInputSliceEmpty(pre, id) ==
    \A j \in 1..Len(SourceOf(pre, id).inputs) : InputSliceEmpty(pre, id, j)

\* C8: transform of a derivative dataset returns UpToDate, with no engine
\* called, exactly when the slice of every input is empty. When some slice is
\* not empty a request is built that holds a slice for every input, and the
\* engine the source names, where it is installed, is called with it.
C8_EmptinessDecision ==
    (Transformed /\ IsDerivativeIn(tm.pre, TheId)) =>
        /\ (TheResult = UpToDate /\ tm.calls = <<>>) <=> EveryInputSliceEmpty(tm.pre, TheId)
        /\ TheResult = UpToDate => tm.calls = <<>>
        /\ ~EveryInputSliceEmpty(tm.pre, TheId) =>
              /\ IsSome(tm.requests[1])
              /\ DOMAIN Unwrap(tm.requests[1]).input_slices
                    = Range(SourceOf(tm.pre, TheId).inputs)
              /\ EngineFound(SourceOf(tm.pre, TheId).engine) =>
                    tm.calls = <<[engine |-> SourceOf(tm.pre, TheId).engine,
                                  request |-> Unwrap(tm.requests[1])]>>

\* a watermark alone makes a slice non-empty, next to an input with nothing new
C8_Witness ==
    /\ Transformed
    /\ IsDerivativeIn(tm.pre, TheId)
    /\ Len(SourceOf(tm.pre, TheId).inputs) = 2
    /\ InputSliceEmpty(tm.pre, TheId, 1)
    /\ ~InputSliceEmpty(tm.pre, TheId, 2)
    /\ \A i \in 1..Len(CollectedPrefix(tm.pre, TheId, 2)) :
          CollectedPrefix(tm.pre, TheId, 2)[i].output_slice = None
    /\ Len(tm.calls) = 1

\* C9: when transform returns Updated { block_hash }, the summary of the
\* dataset has last_pulled at the system_time of that block and num_records
\* at the previous num_records plus the num_records of the output slice of
\* the block, or at 0 when the block has no output slice; its id, kind,
\* dependencies and vocab are as before.
C9_SummaryUpdate ==
    (Transformed /\ TheResult.tag = "Updated") =>
        LET block == get_block(chains[TheId], TheResult.block_hash)
            prev == tm.pre.summaries[TheId]
            summary == summaries[TheId]
        IN  /\ summary.last_pulled = Some(block.system_time)
            /\ summary.num_records =
                  IF block.output_slice = None THEN 0
                  ELSE prev.num_records + Unwrap(block.output_slice).num_records
            /\ summary.id = prev.id
            /\ summary.kind = prev.kind
            /\ summary.dependencies = prev.dependencies
            /\ summary.vocab = prev.vocab

\* records are added to records of an earlier transform
C9_Witness ==
    /\ Transformed
    /\ TheResult.tag = "Updated"
    /\ tm.pre.summaries[TheId].num_records > 0
    /\ summaries[TheId].num_records > tm.pre.summaries[TheId].num_records

\* a block without an output slice resets the count of an earlier transform
C9_WitnessReset ==
    /\ Transformed
    /\ TheResult.tag = "Updated"
    /\ tm.pre.summaries[TheId].num_records > 0
    /\ summaries[TheId].num_records = 0

(***************************************************************************)
(* TransformService::transform_multi                                       *)
(***************************************************************************)
MultiCalled == tm.op = "transform_multi"

\* the number of entries of results that are for dataset id
EntriesFor(results, id) == Cardinality({i \in 1..Len(results) : results[i][1] = id})
\* the number of times id was requested
RequestsFor(ids, id) == Cardinality({i \in 1..Len(ids) : ids[i] = id})

\* C10: transform_multi never aborts: whatever fails for one dataset of the
\* batch, the call goes on, and what it returns holds one entry for every
\* dataset requested.
C10_BatchNeverAborted ==
    MultiCalled =>
        /\ tm.pc # "panicked"
        /\ tm.pc = "done" =>
              \A id \in Ids : EntriesFor(tm.results, id) = RequestsFor(tm.ids, id)

\* the batch <<d, b>> is aborted when b is not in the repository: d, which
\* has input data to process, gets no result
C10_AbortedBatch ==
    /\ MultiCalled
    /\ tm.pc = "panicked"
    /\ tm.ids = <<"d", "b">>
    /\ "b" \notin DOMAIN tm.pre.chains
    /\ IsSome(get_next_operation(tm.pre.chains, tm.pre.summaries, "d").req)
    /\ tm.results = <<>>

\* the failure of an engine call is recorded for its dataset, next to the
\* result of the other dataset of the batch
C10_EngineFailureRecorded ==
    /\ MultiCalled
    /\ tm.pc = "done"
    /\ Len(tm.results) = 2
    /\ tm.results[1][2].tag = "Updated"
    /\ tm.results[2][2] = TransformErr("engine")

EngineOf(w) == workers[w].request.source.engine
InEngine(w) == workers[w].pc = "in_engine"
WorkerIds == 1..Len(workers)

\* C11: no two workers are inside transform() of the same engine at once; a
\* worker inside the call holds the lock of its engine, from entering the
\* call to its return; no worker waiting for an engine or inside the call
\* holds the lock of the engine factory, so that a worker whose engine is
\* free enters the call whatever the others do.
C11_EnginesSerialized ==
    /\ \A v, w \in WorkerIds :
          (v # w /\ InEngine(v) /\ InEngine(w)) => EngineOf(v) # EngineOf(w)
    /\ \A w \in WorkerIds : InEngine(w) <=> (EngineFound(EngineOf(w))
                                              /\ locks.engine[EngineOf(w)] = w)
    /\ \A w \in WorkerIds :
          workers[w].pc \in {"lock_engine", "in_engine"} => locks.factory # w
    /\ \A w \in WorkerIds :
          (/\ workers[w].pc = "lock_engine"
           /\ \A v \in WorkerIds : InEngine(v) => EngineOf(v) # EngineOf(w))
             => ENABLED LockEngine(w)

\* one worker is inside flink and another inside spark, at the same time
C11_Witness ==
    \E v, w \in WorkerIds :
        /\ InEngine(v) /\ InEngine(w)
        /\ EngineOf(v) = "flink" /\ EngineOf(w) = "spark"

\* a worker waits for the engine another worker is inside
C11_WitnessWaiting ==
    \E v, w \in WorkerIds :
        /\ InEngine(v)
        /\ workers[w].pc = "lock_engine"
        /\ EngineOf(v) = EngineOf(w)

\* the repository calls of the summary update that starts at position i
SummaryUpdateAt(i) ==
    /\ i + 2 <= Len(tm.repo)
    /\ tm.repo[i].call = "get_summary"
    /\ tm.repo[i + 1].call = "get_metadata_chain"
    /\ tm.repo[i + 2].call = "update_summary"
    /\ tm.repo[i + 1].id = tm.repo[i].id
    /\ tm.repo[i + 2].id = tm.repo[i].id

\* C12 as stated: every call to the repository during transform_multi is made
\* while no worker runs, before the first is spawned or after the last is
\* joined.
C12_RepositorySerialized_Original ==
    MultiCalled => \A i \in 1..Len(tm.repo) : tm.repo[i].live = 0

\* C12, amended: the repository is called by the calling thread only; every
\* get_summary and every summary write is made while no worker runs, and a
\* summary write ends the read-modify-write sequence of its dataset, which no
\* other call interrupts; get_metadata_chain alone is also called between the
\* spawns, once for every worker, while the workers spawned before run.
C12_RepositorySerialized ==
    MultiCalled =>
        /\ \A i \in 1..Len(tm.repo) :
              tm.repo[i].call # "get_metadata_chain" => tm.repo[i].live = 0
        /\ \A i \in 1..Len(tm.repo) :
              tm.repo[i].call = "update_summary" => (i > 2 /\ SummaryUpdateAt(i - 2))
        /\ \A i \in 1..Len(tm.repo) :
              tm.repo[i].live > 0 =>
                  \E w \in WorkerIds :
                      /\ w = tm.repo[i].live + 1
                      /\ workers[w].id = tm.repo[i].id
        /\ Cardinality({i \in 1..Len(tm.repo) : tm.repo[i].live > 0})
              = (IF Len(workers) = 0 THEN 0 ELSE Len(workers) - 1)
        /\ \A w \in WorkerIds : workers[w].pc # "finished" =>
              \A i \in 1..Len(tm.repo) : tm.repo[i].call # "update_summary"

\* two summaries are written after two workers have run
C12_Witness ==
    /\ MultiCalled
    /\ tm.pc = "done"
    /\ Len(workers) = 2
    /\ Cardinality({i \in 1..Len(tm.repo) : tm.repo[i].call = "update_summary"}) = 2
    /\ \E i \in 1..Len(tm.repo) : tm.repo[i].live = 1

(***************************************************************************)
(* PullService::pull_multi                                                 *)
(***************************************************************************)
PlanIds == UNION {Range(cmd.plan[k]) : k \in 1..Len(cmd.plan)}
WaveOf(id) == CHOOSE k \in 1..Len(cmd.plan) : id \in Range(cmd.plan[k])
InputsOf(id) == Range(summaries[id].dependencies)
HasResult(id) == \E i \in 1..Len(cmd.results) : cmd.results[i][1] = id

\* C13: while a wave of a pull is at work (its requests computed, its workers
\* spawned or running), every input of every dataset of the wave is at rest:
\* it is not of the same wave and no worker runs for it, its chain and summary
\* are those the requests of the wave were computed from, and, when it is
\* pulled too, its wave is over and its result collected. No worker outlives
\* its wave.
C13_WavesOrdered ==
    /\ tm.pc = "idle" => workers = <<>>
    /\ (cmd.pc = "waves" /\ MultiCalled) =>
          \A i \in 1..Len(tm.ids) : \A y \in InputsOf(tm.ids[i]) :
              /\ \A j \in 1..Len(tm.ids) : tm.ids[j] # y
              /\ \A w \in WorkerIds : workers[w].id # y
              /\ chains[y] = tm.pre.chains[y]
              /\ summaries[y] = tm.pre.summaries[y]
              /\ y \in PlanIds => (WaveOf(y) <= cmd.wave /\ HasResult(y))

\* the diamond: the worker of d runs on a request for the blocks that the
\* workers of a and b have committed in the wave before
C13_Witness ==
    /\ cmd.pc = "waves"
    /\ tm.ids = <<"d">>
    /\ Len(workers) = 1
    /\ workers[1].pc = "in_engine"
    /\ summaries["b"].kind = "derivative"
    /\ \E i, j \in 1..Len(cmd.results) :
          /\ cmd.results[i] = <<"a", Updated(chains["a"].head)>>
          /\ cmd.results[j] = <<"b", Updated(chains["b"].head)>>
    /\ \A y \in {"a", "b"} :
          workers[1].request.input_slices[y].interval
              = unbounded_closed_right(get_block(chains[y], chains[y].head).system_time)

(***************************************************************************)
(* get_next_operation on chains with more than one source                  *)
(***************************************************************************)
TransformCalled == tm.op = "transform" /\ IsDerivativeIn(tm.pre, TheId)
FailsNotImplemented == tm.pc = "panicked" /\ tm.panic = Some([tag |-> "not implemented"])
DeclaredSources(pre, id) == SourceBlocks(pre.chains[id])
DistinctSources(pre, id) == {b.source : b \in SourceBlocks(pre.chains[id])}

\* C14 as stated: the next operation of a derivative dataset fails with 'not
\* implemented' exactly when the blocks of its chain carry more than one
\* distinct source.
C14_NotImplemented_Original ==
    TransformCalled =>
        (FailsNotImplemented <=> Cardinality(DistinctSources(tm.pre, TheId)) > 1)

\* C14, amended: the next operation of a derivative dataset fails with 'not
\* implemented' exactly when more than one block of its chain carries a
\* source, be the sources distinct or equal; with one such block the interval
\* computation is reached and the transform comes to a result.
C14_NotImplemented ==
    TransformCalled =>
        /\ FailsNotImplemented <=> Cardinality(DeclaredSources(tm.pre, TheId)) > 1
        /\ Cardinality(DeclaredSources(tm.pre, TheId)) = 1 =>
              (tm.pc = "done" /\ Len(tm.results) = 1)

\* a chain that declares the same source twice is refused
C14_Witness ==
    /\ TransformCalled
    /\ FailsNotImplemented
    /\ Cardinality(DeclaredSources(tm.pre, TheId)) = 2
    /\ Cardinality(DistinctSources(tm.pre, TheId)) = 1

(***************************************************************************)
(* DatasetID                                                                *)
(***************************************************************************)
\* the strings of the dataset_id rule, told without parsing: alphanumerics of
\* lower case and single separators between them, a letter first
InGrammar(s) ==
    /\ s # <<>>
    /\ s[1] \in Lower
    /\ s[Len(s)] \in Alphanums
    /\ \A i \in 1..Len(s) : s[i] \in Alphanums \cup Separators
    /\ \A i \in 1..(Len(s) - 1) : ~(s[i] \in Separators /\ s[i + 1] \in Separators)

KamuTest == <<"k", "a", "m", "u", ".", "t", "e", "s", "t">>
NaturalEarth == <<"c", "o", "m", ".", "n", "a", "t", "u", "r", "a", "l", "e", "a", "r", "t",
                  "h", "d", "a", "t", "a", ".", "1", "0", "m", ".", "a", "d", "m", "i", "n", "0">>
Rejected == {<<>>, <<"1", "b", "a", "d">>, <<"a", ".", ".", "b">>, <<"a", " ", "b">>}

TryFromCalled == ret.op \in {"DatasetID::try_from", "DatasetIDBuf::try_from",
                             "DatasetIDBuf::from_str"}

\* C15: try_from(s), of DatasetID and of DatasetIDBuf, and from_str(s) return
\* Ok, with an id that holds s, exactly when the dataset_id rule matches all
\* of s, and otherwise InvalidDatasetID with s as it was given; kamu.test and
\* com.naturalearthdata.10m.admin0 are accepted, the empty string, 1bad, a..b
\* and 'a b' are rejected.
C15_IdentifierValidation ==
    /\ TryFromCalled =>
          /\ ret.res.tag = "Ok" <=> InGrammar(Unwrap(ret.arg))
          /\ ret.res.tag = "Ok" => ret.res.value.id = Unwrap(ret.arg)
          /\ ret.res.tag # "Ok" => ret.res = InvalidDatasetID(Unwrap(ret.arg))
    /\ \A s \in {KamuTest, NaturalEarth} :
          /\ DatasetID_try_from(s) = OkValue([id |-> s])
          /\ from_str(s) = OkValue([id |-> s])
    /\ \A s \in Rejected :
          /\ DatasetID_try_from(s) = InvalidDatasetID(s)
          /\ from_str(s) = InvalidDatasetID(s)

\* a string is rejected for what follows the match of the rule
C15_Witness ==
    /\ ret.op = "DatasetID::try_from"
    /\ ret.arg = Some(<<"a", " ", "b">>)
    /\ match_dataset_id(Unwrap(ret.arg)) = Some(<<" ", "b">>)
    /\ ret.res = InvalidDatasetID(<<"a", " ", "b">>)

C15_WitnessAccepted ==
    /\ ret.op = "DatasetIDBuf::from_str"
    /\ ret.arg = Some(<<"a", ".", "1">>)
    /\ ret.res.tag = "Ok"

Constructors == {"DatasetID::try_from", "DatasetIDBuf::try_from", "DatasetIDBuf::from_str",
                 "DatasetIDBuf::new", "DatasetIDBuf::default", "to_owned", "deserialize"}

\* C16: every DatasetID and DatasetIDBuf that try_from, from_str, new, default,
\* to_owned or deserialization hands out holds a string that the dataset_id
\* rule accepts in full.
C16_NeverUnvalidated ==
    ret.op \in Constructors /\ ret.res.tag = "Ok" => InGrammar(ret.res.value.id)

\* the same of the constructors that take a string
C16_ValidatedFromString ==
    ret.op \in Constructors /\ ret.arg # None /\ ret.res.tag = "Ok" => InGrammar(ret.res.value.id)

(***************************************************************************)
(* get_summary                                                              *)
(***************************************************************************)
GetSummaryCalled == ret.op = "get_summary"
SidecarAbsent == dataset_exists(ret.pre.chains, ret.arg) /\ ret.arg \notin DOMAIN ret.pre.summaries

\* C17: get_summary(id) returns DoesNotExist only when the dataset id does not
\* exist; for a dataset whose chain is there and whose summary is not it is a
\* fatal assertion, never an error returned to the caller.
C17_AbsentSidecarIsFatal ==
    GetSummaryCalled =>
        /\ ret.res.tag = "DoesNotExist" => ~dataset_exists(ret.pre.chains, ret.arg)
        /\ SidecarAbsent => ret.res.tag = "Panic"

\* what get_summary does return: DoesNotExist exactly when the summary is absent
C17_DecidedBySummaryPath ==
    GetSummaryCalled =>
        (ret.res = DoesNotExist(ret.arg) <=> ret.arg \notin DOMAIN ret.pre.summaries)

(***************************************************************************)
(* PullCommand::run: what it returns and what it counts                     *)
(***************************************************************************)
\* the argument combinations that reach pull_multi
ValidRow ==
    \/ cmd.ids = <<>> /\ ~cmd.recursive /\ cmd.all
    \/ cmd.ids # <<>> /\ ~cmd.all

CountOf(kind) == Cardinality({i \in 1..Len(cmd.results) : cmd.results[i][2] = kind})

EveryResultCounted ==
    /\ cmd.updated = CountOf("Updated")
    /\ cmd.up_to_date = CountOf("UpToDate")
    /\ cmd.errors = CountOf("Err")
    /\ cmd.updated + cmd.up_to_date + cmd.errors = Len(cmd.results)

\* C18: run on a valid argument combination ends by returning Ok(()), however
\* many results of pull_multi are errors; the only error it returns is a
\* UsageError; every result of pull_multi is counted in exactly one of
\* updated, up-to-date and errored.
C18_ExitCodes ==
    /\ ValidRow => cmd.pc \in {"new", "pulling", "done"}
    /\ cmd.pc = "done" =>
          /\ ValidRow => cmd.res = Ok
          /\ cmd.res # Ok => cmd.res.tag = "UsageError"
          /\ EveryResultCounted

\* the same of the runs all of whose ids parse as dataset ids, and the end of
\* the others
C18_ExitCodesOfParsedIds ==
    /\ ValidRow /\ (\A i \in 1..Len(cmd.ids) : ParsesAsDatasetID(cmd.ids[i]))
          => cmd.pc \in {"new", "pulling", "done"}
    /\ cmd.pc = "done" =>
          /\ ValidRow => cmd.res = Ok
          /\ cmd.res # Ok => cmd.res.tag = "UsageError"
          /\ EveryResultCounted
    /\ cmd.pc = "panicked" =>
          /\ cmd.pull_multi = <<>>
          /\ \E i \in 1..Len(cmd.ids) : ~ParsesAsDatasetID(cmd.ids[i])

(***************************************************************************)
(* add_datasets: termination of the ordering loop                           *)
(***************************************************************************)
InputsInBatch(batch, id) ==
    UNION {Range(batch[i].source.inputs) \cap SnapshotIds(batch) :
              i \in {j \in 1..Len(batch) : batch[j].id = id}}

\* some ids of the batch each have an input among themselves: the dependency
\* graph restricted to the batch has a cycle
Cyclic(batch) ==
    \E S \in SUBSET SnapshotIds(batch) :
        S # {} /\ \A id \in S : InputsInBatch(batch, id) \cap S # {}

Sorting == ad.pc = "sort"
Sorted == ad.pc \in {"add", "done"}
EmittedOnce ==
    /\ Len(ad.ordered) = Len(ad.batch)
    /\ Range(ad.ordered) = Range(ad.batch)
    /\ ad.snapshots = <<>>

\* C19: the ordering loop of add_datasets ends, with every snapshot of the
\* batch emitted exactly once, if and only if no ids of the batch depend on
\* each other in a cycle, a self-reference included; inputs outside the batch
\* do not count; the loop never ends on a batch with a cycle.
C19_TerminatesIffAcyclic ==
    /\ [](Sorted => ~Cyclic(ad.batch) /\ EmittedOnce)
    /\ (Sorting /\ ~Cyclic(ad.batch)) ~> Sorted
    /\ [](Sorting /\ Cyclic(ad.batch) => [](Sorting /\ ad.snapshots # <<>>))

\* a mutual reference: one snapshot emitted, the two that are left wait for
\* each other
C19_Witness ==
    /\ Sorting
    /\ Len(ad.batch) = 3
    /\ Len(ad.ordered) = 1
    /\ Len(ad.snapshots) = 2
    /\ \A i \in 1..2 : HasDeps(ad.snapshots[i], ad.pending)
    /\ \A i \in 1..2 : ad.snapshots[i].id \notin Range(ad.snapshots[i].source.inputs)

\* a batch given out of order, with an input outside the batch, is sorted
C19_WitnessSorted ==
    /\ Sorted
    /\ Len(ad.batch) = 2
    /\ ad.ordered # ad.batch
    /\ \E i \in 1..2 : /\ ad.batch[i].source.kind = "derivative"
                       /\ Range(ad.batch[i].source.inputs) \ SnapshotIds(ad.batch) # {}
                       /\ InputsInBatch(ad.batch, ad.batch[i].id) # {}

(***************************************************************************)
(* get_input_slice: the intervals of one input never overlap                *)
(***************************************************************************)
Times == 0..MaxTime

\* the intervals recorded for input index in the blocks of a chain, HEAD first
RecordedIntervals(chain, index) ==
    LET blocks == SelectSeq(iter_blocks(chain), HasInputSlices)
    IN  [i \in 1..Len(blocks) |-> Unwrap(blocks[i].input_slices)[index].interval]

\* a lies strictly to the right of b
StrictlyRightOf(a, b) ==
    \/ a.empty
    \/ b.empty
    \/ /\ IsSome(b.hi)
       /\ IsSome(a.lo)
       /\ a.lo_open
       /\ Unwrap(a.lo) >= Unwrap(b.hi)

RequestMade == tm.op = "transform" /\ tm.requests # <<>> /\ IsSome(tm.requests[1])
Requested(x) == Unwrap(tm.requests[1]).input_slices[x].interval

\* the times of the blocks of an input chain that lie in the interval
BlocksIn(chain, iv) == {b \in chain.blocks : contains_point(iv, b.system_time)}

\* C20: the interval transform requests for input j of a derivative dataset
\* lies strictly to the right of every interval recorded for input j in the
\* output chain; when it is not empty its lower bound is exclusive and is the
\* right edge of the first non-empty recorded interval walking from HEAD, or
\* there is no lower bound when none is recorded; the intervals recorded for
\* input j are pairwise disjoint, so no input block lies in two of them.
C20_IntervalsAdvance ==
    /\ RequestMade =>
          LET inputs == SourceOf(tm.pre, TheId).inputs IN
          \A j \in 1..Len(inputs) :
             LET recorded == RecordedIntervals(tm.pre.chains[TheId], j)
                 nonempty == SelectSeq(recorded, LAMBDA iv : ~iv.empty)
                 iv == Requested(inputs[j])
             IN  /\ \A i \in 1..Len(recorded) : StrictlyRightOf(iv, recorded[i])
                 /\ \A i \in 1..Len(recorded) : \A t \in Times :
                       ~(contains_point(iv, t) /\ contains_point(recorded[i], t))
                 /\ ~iv.empty =>
                       IF nonempty = <<>> THEN iv.lo = None
                       ELSE iv.lo = nonempty[1].hi /\ iv.lo_open
    /\ \A id \in DOMAIN chains : summaries[id].kind = "derivative" =>
          \A j \in 1..Len(summaries[id].dependencies) :
             LET recorded == RecordedIntervals(chains[id], j) IN
             \A i \in 1..Len(recorded) : \A k \in (i + 1)..Len(recorded) :
                /\ StrictlyRightOf(recorded[i], recorded[k])
                /\ BlocksIn(chains[summaries[id].dependencies[j]], recorded[i])
                      \cap BlocksIn(chains[summaries[id].dependencies[j]], recorded[k]) = {}

\* a second transform asks for what came after the interval recorded by the first
C20_Witness ==
    /\ RequestMade
    /\ \E j \in 1..Len(SourceOf(tm.pre, TheId).inputs) :
          LET recorded == RecordedIntervals(tm.pre.chains[TheId], j)
              iv == Requested(SourceOf(tm.pre, TheId).inputs[j])
          IN  /\ Len(recorded) = 1
              /\ recorded[1] = [empty |-> FALSE, lo |-> None, lo_open |-> FALSE, hi |-> Some(0)]
              /\ iv = [empty |-> FALSE, lo |-> Some(0), lo_open |-> TRUE, hi |-> Some(1)]

\* two intervals recorded for one input, the later one right of the earlier
C20_WitnessRecorded ==
    \E id \in DOMAIN chains :
        /\ summaries[id].kind = "derivative"
        /\ LET recorded == RecordedIntervals(chains[id], 1) IN
              /\ Len(recorded) = 2
              /\ ~recorded[1].empty
              /\ ~recorded[2].empty

(***************************************************************************)
(* DockerClient: bounded waits                                              *)
(***************************************************************************)
Waiting == ret.op \in Waits /\ ret.pc \in {"loop", "sleep"}
WaitReturned == ret.op \in Waits /\ ret.pc = "done"
LastProbe == ret.probes[Len(ret.probes)]
EarlierProbesWentOn ==
    \A i \in 1..(Len(ret.probes) - 1) :
        ~ret.probes[i].ok /\ ret.probes[i].elapsed < ret.timeout

\* C21: every wait probes at least once; it returns Ok at the first probe
\* that succeeds, whatever time has elapsed by then, and TimeoutError at the
\* first failed probe after which the time elapsed is at least the timeout;
\* with a clock that advances, every wait returns.
C21_WaitsBounded ==
    /\ [](WaitReturned =>
            /\ Len(ret.probes) >= 1
            /\ EarlierProbesWentOn
            /\ LastProbe.ok => ret.res.tag = "Ok"
            /\ ~LastProbe.ok => /\ LastProbe.elapsed >= ret.timeout
                                /\ ret.res = TimeoutError(ret.timeout))
    /\ [](Waiting => /\ \A i \in 1..Len(ret.probes) :
                           ~ret.probes[i].ok /\ ret.probes[i].elapsed < ret.timeout
                     /\ ret.pc = "sleep" => Len(ret.probes) >= 1)
    /\ Waiting ~> WaitReturned

\* a probe that succeeds after the timeout has elapsed still returns Ok
C21_Witness ==
    /\ WaitReturned
    /\ ret.op = "wait_for_host_port"
    /\ ret.timeout = 1
    /\ Len(ret.probes) = 2
    /\ LastProbe.ok
    /\ LastProbe.elapsed > ret.timeout
    /\ ret.res = OkValue(HostPort)

C21_WitnessTimeout ==
    /\ WaitReturned
    /\ ret.timeout = 2
    /\ Len(ret.probes) = 3
    /\ ret.res = TimeoutError(2)

(***************************************************************************)
(* delete_dataset: what a successful delete removes                         *)
(***************************************************************************)
DeleteCalled == ret.op = "delete_dataset"
Deletable(pre, id) == id \in DOMAIN pre.chains /\ ListedBy(pre, id) = {}

\* C22: delete_dataset(id) of an existing dataset that no other dataset lists
\* returns Ok whichever of its bulk directories are there; afterwards the
\* chain and the three bulk directories of id are gone, get_metadata_chain(id)
\* and a second delete_dataset(id) fail with DoesNotExist, id is not listed,
\* and the chain, summary and bulk directories of every other dataset are as
\* before.
C22_DeleteRemoves ==
    (DeleteCalled /\ Deletable(ret.pre, ret.arg)) =>
        /\ ret.res = Ok
        /\ ~dataset_exists(chains, ret.arg)
        /\ ret.arg \notin DOMAIN summaries
        /\ bulk[ret.arg] = {}
        /\ get_metadata_chain_impl(chains, ret.arg) = DoesNotExist(ret.arg)
        /\ DeleteDatasetResult(chains, summaries, ret.arg) = DoesNotExist(ret.arg)
        /\ ret.arg \notin get_all_datasets(chains)
        /\ get_all_datasets(chains) = get_all_datasets(ret.pre.chains) \ {ret.arg}
        /\ \A x \in DOMAIN ret.pre.chains \ {ret.arg} :
              /\ chains[x] = ret.pre.chains[x]
              /\ summaries[x] = ret.pre.summaries[x]
        /\ \A x \in Ids \ {ret.arg} : bulk[x] = ret.pre.bulk[x]

\* a dataset deleted that had its data directory, and neither cache nor
\* checkpoints, while another dataset stays
C22_Witness ==
    /\ DeleteCalled
    /\ Deletable(ret.pre, ret.arg)
    /\ ret.pre.bulk[ret.arg] = {"data"}
    /\ ret.res = Ok
    /\ chains # <<>>

(***************************************************************************)
(* get_input_slice: the explicit watermarks                                 *)
(***************************************************************************)
\* the blocks of the collected prefix of input j that carry a watermark, HEAD
\* first
WatermarkBlocks(pre, id, j) == SelectSeq(CollectedPrefix(pre, id, j), HasWatermark)

RequestedWatermarks(x) == Unwrap(tm.requests[1]).input_slices[x].explicit_watermarks

\* C23: the explicit watermarks requested for an input are the pairs of
\* system_time and output_watermark of the blocks of its collected prefix that
\* carry a watermark, one for each such block, the oldest block first; a
\* block outside the prefix gives none.
C23_ExplicitWatermarks ==
    RequestMade =>
        LET inputs == SourceOf(tm.pre, TheId).inputs IN
        \A j \in 1..Len(inputs) :
            LET blocks == WatermarkBlocks(tm.pre, TheId, j)
                ews == RequestedWatermarks(inputs[j])
                n == Len(blocks)
            IN  /\ Len(ews) = n
                /\ \A i \in 1..n :
                      /\ ews[i].system_time = blocks[n + 1 - i].system_time
                      /\ Some(ews[i].event_time) = blocks[n + 1 - i].output_watermark
                /\ \A i \in 1..(n - 1) : ews[i].system_time <= ews[i + 1].system_time

\* two watermarks of different times requested at once
C23_Witness ==
    /\ RequestMade
    /\ \E x \in Range(SourceOf(tm.pre, TheId).inputs) :
          /\ Len(RequestedWatermarks(x)) = 2
          /\ RequestedWatermarks(x)[1].system_time < RequestedWatermarks(x)[2].system_time

\* a block with a watermark that was processed before gives none
C23_WitnessOutside ==
    /\ RequestMade
    /\ \E j \in 1..Len(SourceOf(tm.pre, TheId).inputs) :
          LET x == SourceOf(tm.pre, TheId).inputs[j] IN
          /\ Len(RequestedWatermarks(x)) = 1
          /\ Cardinality({b \in tm.pre.chains[x].blocks : HasWatermark(b)}) = 2

(***************************************************************************)
(* do_transform_inner: the appended block is stitched onto HEAD             *)
(***************************************************************************)
Hashes(chain) == {b.block_hash : b \in chain.blocks}

\* one genesis block, every other block on top of another block of the chain,
\* no two on top of the same, and all of them met walking back from HEAD
Linear(chain) ==
    /\ Cardinality({b \in chain.blocks : b.prev_block_hash = EmptyHash}) = 1
    /\ \A b \in chain.blocks :
          b.prev_block_hash # EmptyHash => b.prev_block_hash \in Hashes(chain) \ {b.block_hash}
    /\ \A b, c \in chain.blocks : b.prev_block_hash = c.prev_block_hash => b = c
    /\ \A b, c \in chain.blocks : b.block_hash = c.block_hash => b = c
    /\ chain.head \in Hashes(chain)
    /\ \A b \in chain.blocks : b.prev_block_hash # chain.head
    /\ Range(iter_blocks(chain)) = chain.blocks
    /\ Len(iter_blocks(chain)) = Cardinality(chain.blocks)
    /\ \A i \in 1..(Len(iter_blocks(chain)) - 1) :
          iter_blocks(chain)[i].prev_block_hash = iter_blocks(chain)[i + 1].block_hash

ReturnedUpdated == Transformed /\ TheResult.tag = "Updated"

\* C24: the block a transform appends has for prev_block_hash the HEAD the
\* output chain had before the engine was called, and the block_hash of the
\* Updated result is the new HEAD; every chain stays a linear list, each
\* block on top of its predecessor.
C24_StitchedOntoHead ==
    /\ Transformed =>
          IF dataset_exists(tm.pre.chains, TheId)
          THEN AppendedBy(TheId) # {} <=> TheResult.tag = "Updated"
          ELSE TheResult.tag # "Updated"
    /\ ReturnedUpdated =>
          /\ Cardinality(AppendedBy(TheId)) = 1
          /\ \A b \in AppendedBy(TheId) :
                /\ b.prev_block_hash = tm.pre.chains[TheId].head
                /\ b.block_hash = TheResult.block_hash
                /\ b.block_hash # tm.pre.chains[TheId].head
          /\ chains[TheId].head = TheResult.block_hash
          /\ iter_blocks(chains[TheId])
                = <<get_block(chains[TheId], TheResult.block_hash)>>
                     \o iter_blocks(tm.pre.chains[TheId])
    /\ \A id \in DOMAIN chains : Linear(chains[id])

\* the second block a transform puts on a derivative chain
C24_Witness ==
    /\ ReturnedUpdated
    /\ Cardinality(chains[TheId].blocks) = 3
    /\ Cardinality(tm.pre.chains[TheId].blocks) = 2
    /\ get_block(chains[TheId], chains[TheId].head).prev_block_hash = tm.pre.chains[TheId].head

(***************************************************************************)
(* transform, transform_multi: what a result other than Updated leaves alone *)
(***************************************************************************)
MultiReturned == tm.op = "transform_multi" /\ tm.pc = "done"
ResultsOf(id) == {tm.results[i][2] : i \in {k \in 1..Len(tm.results) : tm.results[k][1] = id}}
EngineFailures == {TransformErr("engine not found"), TransformErr("engine")}

C25_TransformFrame ==
    (Transformed /\ TheResult.tag # "Updated") =>
        /\ chains = tm.pre.chains
        /\ summaries = tm.pre.summaries

C25_WitnessUpToDate ==
    /\ MultiReturned
    /\ \E x \in DOMAIN chains : ResultsOf(x) = {UpToDate}

C25_WitnessNotFound ==
    /\ MultiReturned
    /\ \E x \in DOMAIN chains : ResultsOf(x) = {TransformErr("engine not found")}

(***************************************************************************)
(* Referential integrity of the repository                                  *)
(***************************************************************************)
DependenciesOf(id) == Range(summaries[id].dependencies)

\* some existing datasets each depend on one of themselves
DependencyCycle ==
    \E S \in SUBSET DOMAIN chains :
        S # {} /\ \A id \in S : DependenciesOf(id) \cap S # {}

\* C26: whatever add_dataset, add_datasets and delete_dataset calls were made,
\* and however they ended, every dependency of an existing dataset exists, no
\* dataset depends on itself, and the dependencies of the existing datasets
\* form no cycle.
C26_ReferentialIntegrity ==
    /\ DOMAIN summaries = DOMAIN chains
    /\ \A id \in DOMAIN chains :
          /\ DependenciesOf(id) \subseteq DOMAIN chains
          /\ id \notin DependenciesOf(id)
    /\ ~DependencyCycle

\* an add_datasets call has put the third dataset on top of a chain of two,
\* and was refused the other snapshot of its batch
C26_Witness ==
    /\ ad.pc = "done"
    /\ Cardinality(DOMAIN chains) = 3
    /\ \E x, y, z \in DOMAIN chains :
          /\ x \in DependenciesOf(y)
          /\ y \in DependenciesOf(z)
    /\ \E i \in 1..Len(ad.results) : ad.results[i][2] = Ok
    /\ \E i \in 1..Len(ad.results) : ad.results[i][2].tag = "AlreadyExists"

\* a delete is refused for a dependent, an add for a missing input
C26_WitnessRefused ==
    /\ ret.op \in {"delete_dataset", "add_dataset"}
    /\ ret.res.tag \in {"DanglingReference", "MissingReference"}
    /\ chains # <<>>

(***************************************************************************)
(* get_input_slice: is input data ever skipped                              *)
(***************************************************************************)
CarriesData(b) == IsSome(b.output_slice) \/ IsSome(b.output_watermark)

\* the time of block b lies in an interval recorded for input j in chain
Covered(chain, j, b) ==
    \E i \in 1..Len(RecordedIntervals(chain, j)) :
        contains_point(RecordedIntervals(chain, j)[i], b.system_time)

\* every block with data of every input of id is covered
InputsCovered(ch, su, id) ==
    \A j \in 1..Len(su[id].dependencies) :
        \A b \in ch[su[id].dependencies[j]].blocks :
            CarriesData(b) => Covered(ch[id], j, b)

\* this step adds block b to the chain of x
Adds(x, b) == x \in DOMAIN chains /\ b \in chains'[x].blocks \ chains[x].blocks

\* the derivative datasets that have x for input j
ReadBy(x) ==
    {p \in (DOMAIN chains) \X (1..MaxInputs) :
        /\ summaries[p[1]].kind = "derivative"
        /\ p[2] <= Len(summaries[p[1]].dependencies)
        /\ summaries[p[1]].dependencies[p[2]] = x}

\* a block with data, once it is added to an input chain, is among the
\* unprocessed blocks of that input
CollectedOnceAdded ==
    \A x \in DOMAIN chains : \A b \in chains'[x].blocks \ chains[x].blocks :
        CarriesData(b) =>
            \A p \in ReadBy(x) :
                b \in Range(BlocksUnprocessed(p[2], chains'[x], chains'[p[1]]))

\* the same of a block added later than the right edge of what was processed
CollectedOnceAddedLater ==
    \A x \in DOMAIN chains : \A b \in chains'[x].blocks \ chains[x].blocks :
        CarriesData(b) =>
            \A p \in ReadBy(x) :
                (~Covered(chains[p[1]], p[2], b))
                    => b \in Range(BlocksUnprocessed(p[2], chains'[x], chains'[p[1]]))

C27_CoveredWhenUpToDate ==
    (Transformed /\ IsDerivativeIn(tm.pre, TheId) /\ TheResult = UpToDate)
        => InputsCovered(chains, summaries, TheId)

\* and a block added after the right edge of what was processed is collected
C27_LaterBlocksCollected == [][CollectedOnceAddedLater]_vars

\* a block with data that no request has ever covered by collecting it: its
\* input was processed up to time 0 before it was added at time 0
C27_Skipped ==
    /\ Transformed
    /\ TheResult = UpToDate
    /\ IsDerivativeIn(tm.pre, TheId)
    /\ \E j \in 1..Len(summaries[TheId].dependencies) :
          LET x == summaries[TheId].dependencies[j] IN
          /\ Len(RecordedIntervals(chains[TheId], j)) = 1
          /\ Cardinality({b \in chains[x].blocks : IsSome(b.output_slice)}) = 2
          /\ IsSome(get_block(chains[x], chains[x].head).output_slice)

(***************************************************************************)
(* The summary of a derivative dataset against its chain                    *)
(***************************************************************************)
RecordsOf(b) == IF IsSome(b.output_slice) THEN Unwrap(b.output_slice).num_records ELSE 0

RECURSIVE SumRecords(_)
SumRecords(blocks) ==
    IF blocks = {} THEN 0
    ELSE LET b == CHOOSE x \in blocks : TRUE
         IN  RecordsOf(b) + SumRecords(blocks \ {b})

\* the time of the last block a transform appended to chain, None for a chain
\* that holds its genesis block only
LastTransformed(chain) ==
    IF Cardinality(chain.blocks) = 1 THEN None
    ELSE Some(get_block(chain, chain.head).system_time)

Derivatives == {id \in DOMAIN chains : summaries[id].kind = "derivative"}

\* C28: the summary is regeneratable from the chain. After any sequence of
\* transforms of a derivative dataset its summary's num_records is the sum of
\* the num_records of the output slices of all blocks of its chain, and
\* last_pulled is the system_time of the last block a transform appended,
\* absent when there is none.
C28_SummaryFromChain ==
    \A id \in Derivatives :
        /\ summaries[id].num_records = SumRecords(chains[id].blocks)
        /\ summaries[id].last_pulled = LastTransformed(chains[id])

\* what does hold: last_pulled follows the chain
C28_LastPulledFromChain ==
    \A id \in Derivatives : summaries[id].last_pulled = LastTransformed(chains[id])

\* a block with a watermark and no output slice follows a block with records
C28_CountLost ==
    /\ Transformed
    /\ TheResult.tag = "Updated"
    /\ SumRecords(chains[TheId].blocks) > 0
    /\ summaries[TheId].num_records = 0

(***************************************************************************)
(* TransformListener: begin, success, error                                 *)
(***************************************************************************)
\* the callbacks listener k has received, in order
Callbacks(k) ==
    LET es == SelectSeq(tm.events, LAMBDA e : e.listener = k /\ e.event # "begin_transform")
    IN  [i \in 1..Len(es) |-> es[i].event]

\* the number of times a listener was requested for request k
ListenersRequested(k) ==
    Len(SelectSeq(tm.events, LAMBDA e : e.listener = k /\ e.event = "begin_transform"))

\* the terminal callback that answers a result
TerminalOf(res) ==
    IF res.tag = "Updated" THEN "success" ELSE "error"

BlockAppended(id, res) ==
    /\ res.tag = "Updated"
    /\ \E b \in chains[id].blocks \ tm.pre.chains[id].blocks : b.block_hash = res.block_hash

\* C29: the transform listener protocol of transform_multi. The listener of
\* every request that reaches the engine lookup has received begin() exactly
\* once, before the engine is looked up or called, and once the worker has
\* finished exactly one terminal callback after it and nothing else:
\* success iff the block was appended, error iff the engine lookup or the
\* engine call failed. For a dataset found UpToDate no listener is requested
\* and no callback is made. When the call returns every worker has finished.
C29_ListenerProtocol ==
    /\ \A w \in WorkerIds :
          LET k == workers[w].listener
              cb == Callbacks(k)
          IN  /\ ListenersRequested(k) = 1
              /\ tm.ids[k] = workers[w].id
              /\ CASE workers[w].pc = "spawned" -> cb = <<>>
                   [] workers[w].pc = "finished" ->
                        LET res == Unwrap(workers[w].res) IN
                        /\ cb = <<"begin", TerminalOf(res)>>
                        /\ (cb[2] = "success") <=> BlockAppended(workers[w].id, res)
                        /\ (cb[2] = "error") <=> (res \in EngineFailures)
                   [] OTHER -> cb = <<"begin">>
    /\ \A k \in 1..Len(tm.requests) :
          (MultiCalled /\ ~IsSome(tm.requests[k])) =>
              /\ ListenersRequested(k) = 0
              /\ Callbacks(k) = <<>>
    /\ MultiReturned => \A w \in WorkerIds : workers[w].pc = "finished"
    /\ MultiCalled => \A i \in 1..Len(tm.events) :
          \E w \in WorkerIds : workers[w].listener = tm.events[i].listener

\* the same of transform: begin and one terminal callback when there is a
\* request, nothing when the dataset is UpToDate or the request failed
C29_TransformProtocol ==
    Transformed =>
        IF IsSome(tm.requests[1])
        THEN /\ Callbacks(1) = <<"begin", TerminalOf(TheResult)>>
             /\ (TheResult.tag = "Updated") <=> BlockAppended(TheId, TheResult)
             /\ (TheResult.tag # "Updated") <=> (TheResult \in EngineFailures)
        ELSE tm.events = <<>>

\* a call that returned with one dataset updated, one failed in the engine
C29_Witness ==
    /\ MultiReturned
    /\ \E v, w \in WorkerIds :
          /\ Callbacks(workers[v].listener) = <<"begin", "success">>
          /\ Callbacks(workers[w].listener) = <<"begin", "error">>

\* a call that returned with a dataset found UpToDate and no event at all
C29_WitnessUpToDate ==
    /\ MultiReturned
    /\ \E k \in 1..Len(tm.requests) : ~IsSome(tm.requests[k])
    /\ tm.events = <<>>

\* a worker in the engine while another has not begun
C29_WitnessInEngine ==
    \E v, w \in WorkerIds :
        /\ workers[v].pc = "in_engine"
        /\ workers[w].pc = "spawned"

(***************************************************************************)
(* transform_multi: appends to one chain                                    *)
(***************************************************************************)
\* worker w has appended its block
HasAppended(w) ==
    /\ workers[w].pc = "finished"
    /\ Unwrap(workers[w].res).tag = "Updated"

\* two workers of the call that have read the same HEAD of one chain and have
\* both appended on top of it
SameHeadAppended ==
    \E v, w \in WorkerIds :
        /\ v # w
        /\ workers[v].id = workers[w].id
        /\ workers[v].prev_hash = workers[w].prev_hash
        /\ HasAppended(v)
        /\ HasAppended(w)

NoSharedPrev(chain) ==
    \A b, c \in chain.blocks : b.prev_block_hash = c.prev_block_hash => b = c

\* C30: appends to one chain are serialized within a transform_multi call.
\* For any list of ids, one that names a derivative dataset twice included, no
\* two workers of the call read the same HEAD of a chain and both append on
\* top of it, and no two blocks of a chain have the same prev_block_hash.
C30_AppendsSerialized ==
    /\ ~SameHeadAppended
    /\ \A id \in DOMAIN chains : NoSharedPrev(chains[id])

\* what does hold: the same of every call whose ids are pairwise distinct
C30_DistinctIdsSerialized ==
    (MultiCalled /\ \A i, j \in 1..Len(tm.ids) : tm.ids[i] = tm.ids[j] => i = j)
        => /\ ~SameHeadAppended
           /\ \A id \in DOMAIN chains : NoSharedPrev(chains[id])

\* the call has returned with two blocks on top of the same block
C30_Forked ==
    /\ MultiReturned
    /\ Len(tm.ids) = 2
    /\ tm.ids[1] = tm.ids[2]
    /\ ~NoSharedPrev(chains[tm.ids[1]])

=============================================================================
